---------------------------- MODULE Spec2Model ----------------------------
(***************************************************************************)
(* HomeAgent: the shared protocol codec (request envelope validation and   *)
(* the idempotency-key rule), the gateway's RPC dispatch pipeline (RBAC     *)
(* gate, idempotency middleware, handlers) and the runtime's session lock   *)
(* manager with the agentic loop that runs under it.                        *)
(*                                                                          *)
(* Strings whose content matters (ids, idempotency keys) are sequences of   *)
(* atoms, one atom per character or per indivisible run of characters, so   *)
(* that trimming and concatenation are computed rather than assumed.        *)
(***************************************************************************)
EXTENDS Integers, Sequences, FiniteSets, TLC

VARIABLES
    raw,        \* codec: the value handed to safeParseRequestEnvelope
    parsed,     \* codec: what safeParseRequestEnvelope produced for it
    req,        \* router: per request slot, the message and its connection
    pc,         \* router: per request slot, where its dispatch stands
    resp,       \* router: per request slot, the response sent
    trace,      \* router: per request slot, the dispatch stages passed
    records,    \* router: the idempotency store, namespaced key -> record
    locks,      \* lock manager: Map<string, Promise<void>>
    promises,   \* lock manager: number of promises created so far
    resolved,   \* lock manager: the promises that have been resolved
    run,        \* runtime: per run, its state (session, phase, promises)
    cancelReq,  \* runtime: runs for which agent.cancel has been issued
    conn,       \* gateway: per connection, its handshake state machine
    devices,    \* gateway: the paired devices (DeviceStore)
    nonces,     \* gateway: the nonce store, nonce -> record
    now,        \* gateway: server time
    tokens,     \* gateway: the session tokens in force
    registry,   \* gateway: ConnectionManager.connections
    revoke,     \* gateway: per device, how far device.revoke has got
    audit,      \* gateway: audit.jsonl, the entries written so far
    outbox,     \* event bus: per connection, the events queued for it
    delivered,  \* event bus: per connection, the events written to its socket
    published,  \* event bus: the number of events broadcast so far
    buffered,   \* event bus: per connection, socket.bufferedAmount in events
    issued,     \* gateway: per connection, the session tokens issued so far
    heartbeat,  \* gateway: per connection, the last heartbeat and its reply
    arg,        \* shared: the call made to a schema or a pure function
    ret,        \* shared: what the call returned
    hooks,      \* hook manager: Map<string, HookRegistration[]>
    regLog,     \* hook manager: the register calls made and how each ended
    execs,      \* hook manager: the execute calls, pending or returned
    completedCalls, \* tool dispatch: per run, the completed call ids
    toolCall,   \* tool dispatch: per run, the tool call being dispatched
    toolLog,    \* tool dispatch: the tool handler invocations so far
    transcript, \* context: per session, <sessionId>.jsonl
    compacted   \* context: per session, <sessionId>.compacted.jsonl

codecVars  == <<raw, parsed>>
routerVars == <<req, pc, resp, trace, records>>
lockVars   == <<locks, promises, resolved, run, cancelReq>>
authVars   == <<conn, devices, nonces, now, tokens, registry, revoke, audit,
                issued, heartbeat>>
busVars    == <<outbox, delivered, published, buffered>>
sharedVars == <<arg, ret>>
hookVars   == <<hooks, regLog, execs>>
toolVars   == <<completedCalls, toolCall, toolLog>>
ctxVars    == <<transcript, compacted>>
vars       == <<raw, parsed, req, pc, resp, trace, records,
                locks, promises, resolved, run, cancelReq,
                conn, devices, nonces, now, tokens, registry, revoke, audit,
                outbox, delivered, published, buffered, issued, heartbeat,
                arg, ret, hooks, regLog, execs,
                completedCalls, toolCall, toolLog, transcript, compacted>>

-----------------------------------------------------------------------------
(* Optional values: a field that may be missing (undefined).                *)

None == [some |-> FALSE]

Some(x) == [some |-> TRUE, v |-> x]

-----------------------------------------------------------------------------
(* protocol/constants.ts                                                    *)

PROTOCOL_VERSION == "1.0"

ROLES == {"client", "node", "admin"}

\* The plan's longer list of side-effecting methods, used where a key is required.
IDEMPOTENT_METHODS_WithAdminMethods ==
    {"message.send", "agent.run", "node.exec.request", "node.exec.approve",
     "device.revoke", "plugin.disable"}

IDEMPOTENT_METHODS ==
    {"message.send", "agent.run", "node.exec.request", "node.exec.approve"}

RPC_METHODS ==
    {"session.resolve", "message.send", "agent.run", "agent.cancel",
     "status.get", "node.exec.request", "node.exec.approve",
     "device.revoke", "plugin.disable"}

-----------------------------------------------------------------------------
(* protocol/types.ts: the base schemas.  Each returns the value the schema  *)
(* yields (z.string().trim() yields the trimmed string) or fails.           *)

RECURSIVE TrimStart(_)
TrimStart(s) ==
    IF s # <<>> /\ Head(s) = " " THEN TrimStart(Tail(s)) ELSE s

RECURSIVE TrimEnd(_)
TrimEnd(s) ==
    IF s # <<>> /\ s[Len(s)] = " " THEN TrimEnd(SubSeq(s, 1, Len(s) - 1)) ELSE s

\* String.prototype.trim
Trim(s) == TrimEnd(TrimStart(s))

\* NonEmptyString = z.string().trim().min(1): the length is checked after the trim
NonEmptyStringOk(s) == Len(Trim(s)) >= 1

\* Identifier = z.string().min(1): no trim
IdentifierOk(s) == Len(s) >= 1

\* Timestamp = z.number().int().positive()
TimestampOk(n) == n > 0

\* A version check that also lets a newer version through.
ProtocolVersionOkLenient(s) == s \in {PROTOCOL_VERSION, "2.0"}

\* ProtocolVersion = z.literal(PROTOCOL_VERSION)
ProtocolVersionOk(s) == s = PROTOCOL_VERSION

-----------------------------------------------------------------------------
(* protocol/errors.ts                                                       *)

Issue(path, message) == [path |-> path, message |-> message]

\* class ProtocolValidationError extends Error
ProtocolValidationError(message, issues) ==
    [name    |-> "ProtocolValidationError",
     classes |-> {"Error", "ProtocolValidationError"},
     message |-> message,
     issues  |-> issues]

\* An IdempotencyKeyError whose constructor forgets to set this.name.
IdempotencyKeyErrorUnnamed(method) ==
    [name    |-> "ProtocolValidationError",
     classes |-> {"Error", "ProtocolValidationError", "IdempotencyKeyError"},
     message |-> "Idempotency key is required",
     issues  |-> <<Issue(<<"idempotencyKey">>, "Required for method")>>,
     method  |-> method]

\* class IdempotencyKeyError extends ProtocolValidationError
IdempotencyKeyError(method) ==
    [name    |-> "IdempotencyKeyError",
     classes |-> {"Error", "ProtocolValidationError", "IdempotencyKeyError"},
     message |-> "Idempotency key is required",
     issues  |-> <<Issue(<<"idempotencyKey">>, "Required for method")>>,
     method  |-> method]

\* error instanceof cls
InstanceOf(error, cls) == cls \in error.classes

-----------------------------------------------------------------------------
(* protocol/envelopes.ts: RequestEnvelopeSchema.safeParse.  A raw value is  *)
(* either not an object at all, or an object whose six fields are each      *)
(* present or missing.  Issues come in the order of the schema's keys.      *)

VersionIssues(r) ==
    IF r.version.some /\ ProtocolVersionOk(r.version.v)
    THEN <<>> ELSE <<Issue(<<"version">>, "invalid_value")>>

IdIssues(r) ==
    IF r.id.some /\ IdentifierOk(r.id.v)
    THEN <<>> ELSE <<Issue(<<"id">>, IF r.id.some THEN "too_small" ELSE "invalid_type")>>

\* A method check that lets any method name through.
MethodIssuesAnyName(r) ==
    IF r.method.some THEN <<>> ELSE <<Issue(<<"method">>, "invalid_value")>>

MethodIssues(r) ==
    IF r.method.some /\ r.method.v \in RPC_METHODS
    THEN <<>> ELSE <<Issue(<<"method">>, "invalid_value")>>

ParamsIssues(r) ==
    IF r.params.some THEN <<>> ELSE <<Issue(<<"params">>, "invalid_type")>>

\* idempotencyKey: NonEmptyString.optional()
KeyIssues(r) ==
    IF ~r.idempotencyKey.some \/ NonEmptyStringOk(r.idempotencyKey.v)
    THEN <<>> ELSE <<Issue(<<"idempotencyKey">>, "too_small")>>

TsIssues(r) ==
    IF r.ts.some /\ TimestampOk(r.ts.v)
    THEN <<>> ELSE <<Issue(<<"ts">>, IF r.ts.some THEN "too_small" ELSE "invalid_type")>>

SchemaIssues(r) ==
    IF ~r.object THEN <<Issue(<<>>, "invalid_type")>>
    ELSE VersionIssues(r) \o IdIssues(r) \o MethodIssues(r) \o ParamsIssues(r)
         \o KeyIssues(r) \o TsIssues(r)

\* result.data of a successful safeParse: the key is the trimmed one
SchemaData(r) ==
    [version        |-> r.version.v,
     id             |-> r.id.v,
     method         |-> r.method.v,
     params         |-> r.params.v,
     idempotencyKey |-> IF r.idempotencyKey.some
                        THEN Some(Trim(r.idempotencyKey.v)) ELSE None,
     ts             |-> r.ts.v]

-----------------------------------------------------------------------------------------------------------------------------------------------------
(* protocol/methods.ts: the params schema of each method.  A params object  *)
(* is the sequence of its <<name, value>> entries ({} is the empty one);    *)
(* z.object ignores the entries it does not name.  A value is a JSON value  *)
(* tagged with its type; a number is n, or n + 1/2 when it is no integer.   *)

Str(s) == [type |-> "string", str |-> s]

Num(n) == [type |-> "number", num |-> n, int |-> TRUE]

NumAndAHalf(n) == [type |-> "number", num |-> n, int |-> FALSE]

Bool(b) == [type |-> "boolean", bool |-> b]

Null == [type |-> "null"]

Arr(items) == [type |-> "array", items |-> items]

Obj(entries) == [type |-> "object", entries |-> entries]

EmptyParams == <<>>

HasField(p, name) == \E i \in DOMAIN p : p[i][1] = name

Field(p, name) == p[CHOOSE i \in DOMAIN p : p[i][1] = name][2]

\* Identifier
IsIdentifier(x) == x.type = "string" /\ IdentifierOk(x.str)

\* NonEmptyString
IsNonEmptyString(x) == x.type = "string" /\ NonEmptyStringOk(x.str)

\* z.string()
IsString(x) == x.type = "string"

\* z.record(z.string(), z.unknown())
IsRecord(x) == x.type = "object"

\* z.array(z.string())
IsStringArray(x) == x.type = "array" /\ \A i \in DOMAIN x.items : IsString(x.items[i])

\* z.number().int().positive()
IsPositiveInt(x) == x.type = "number" /\ x.int /\ x.num > 0

\* z.boolean()
IsBoolean(x) == x.type = "boolean"

\* z.unknown()
IsUnknown(x) == TRUE

\* name: schema
Required(p, name, Ok(_)) == HasField(p, name) /\ Ok(Field(p, name))

\* name: schema.optional()
Optional(p, name, Ok(_)) == HasField(p, name) => Ok(Field(p, name))

\* MethodSchemas[method].params.safeParse(params).success
MethodParamsOk(method, p) ==
    CASE method = "session.resolve" ->
            /\ Required(p, "deviceId", IsNonEmptyString)
            /\ Optional(p, "agentId", IsNonEmptyString)
      [] method = "message.send" ->
            /\ Required(p, "sessionId", IsIdentifier)
            /\ Required(p, "content", IsNonEmptyString)
            /\ Optional(p, "metadata", IsRecord)
      [] method = "agent.run" ->
            /\ Required(p, "sessionId", IsIdentifier)
            /\ Required(p, "agentId", IsIdentifier)
            /\ Optional(p, "input", IsUnknown)
      [] method = "agent.cancel" -> Required(p, "runId", IsIdentifier)
      [] method = "status.get" ->
            /\ Optional(p, "runId", IsIdentifier)
            /\ Optional(p, "sessionId", IsIdentifier)
      [] method = "node.exec.request" ->
            /\ Required(p, "nodeId", IsIdentifier)
            /\ Required(p, "command", IsNonEmptyString)
            /\ Optional(p, "args", IsStringArray)
            /\ Optional(p, "timeout", IsPositiveInt)
      [] method = "node.exec.approve" ->
            /\ Required(p, "execId", IsIdentifier)
            /\ Required(p, "approved", IsBoolean)
      [] method = "device.revoke" ->
            /\ Required(p, "deviceId", IsNonEmptyString)
            /\ Optional(p, "reason", IsString)
      [] method = "plugin.disable" ->
            /\ Required(p, "pluginId", IsIdentifier)
            /\ Optional(p, "reason", IsString)

-----------------------------------------------------------------------------
(* protocol/idempotency.ts and protocol/validate.ts                         *)

requiresIdempotencyKey(method) == method \in IDEMPOTENT_METHODS

\* `${deviceId}:${method}:${key}`
buildIdempotencyKey(deviceId, method, key) ==
    deviceId \o <<":">> \o <<method>> \o <<":">> \o key

\* !envelope.idempotencyKey: undefined and the empty string are falsy
KeyMissing(envelope) ==
    ~envelope.idempotencyKey.some \/ envelope.idempotencyKey.v = <<>>

parseRequestEnvelope(r) ==
    IF SchemaIssues(r) # <<>>
    THEN [threw |-> TRUE,
          error |-> ProtocolValidationError("Invalid request envelope", SchemaIssues(r))]
    ELSE IF requiresIdempotencyKey(SchemaData(r).method) /\ KeyMissing(SchemaData(r))
         THEN [threw |-> TRUE, error |-> IdempotencyKeyError(SchemaData(r).method)]
         ELSE [threw |-> FALSE, data |-> SchemaData(r)]

\* try { parseRequestEnvelope } catch: a ProtocolValidationError (or a
\* subclass) becomes a failure result, anything else is thrown again
safeParseRequestEnvelope(r) ==
    LET out == parseRequestEnvelope(r) IN
    IF ~out.threw THEN [threw |-> FALSE, success |-> TRUE, data |-> out.data]
    ELSE IF InstanceOf(out.error, "ProtocolValidationError")
         THEN [threw |-> FALSE, success |-> FALSE, error |-> out.error]
         ELSE [threw |-> TRUE, error |-> out.error]

-----------------------------------------------------------------------------
(* RBAC: the permission matrix of the shared package and the gateway's      *)
(* middleware over it.                                                      *)

Row(c, n, a) == [client |-> c, node |-> n, admin |-> a]

\* A matrix that lets node connections start agent runs and send messages.
PERMISSION_MATRIX_NodeMayRun ==
    ("session.resolve"   :> Row(TRUE,  FALSE, TRUE)) @@
    ("message.send"      :> Row(TRUE,  TRUE,  TRUE)) @@
    ("agent.run"         :> Row(TRUE,  TRUE,  TRUE)) @@
    ("agent.cancel"      :> Row(TRUE,  FALSE, TRUE)) @@
    ("status.get"        :> Row(TRUE,  TRUE,  TRUE)) @@
    ("node.exec.request" :> Row(TRUE,  FALSE, TRUE)) @@
    ("node.exec.approve" :> Row(FALSE, FALSE, TRUE)) @@
    ("device.revoke"     :> Row(FALSE, FALSE, TRUE)) @@
    ("plugin.disable"    :> Row(FALSE, FALSE, TRUE))

PERMISSION_MATRIX ==
    ("session.resolve"   :> Row(TRUE,  FALSE, TRUE)) @@
    ("message.send"      :> Row(TRUE,  FALSE, TRUE)) @@
    ("agent.run"         :> Row(TRUE,  FALSE, TRUE)) @@
    ("agent.cancel"      :> Row(TRUE,  FALSE, TRUE)) @@
    ("status.get"        :> Row(TRUE,  TRUE,  TRUE)) @@
    ("node.exec.request" :> Row(TRUE,  FALSE, TRUE)) @@
    ("node.exec.approve" :> Row(FALSE, FALSE, TRUE)) @@
    ("device.revoke"     :> Row(FALSE, FALSE, TRUE)) @@
    ("plugin.disable"    :> Row(FALSE, FALSE, TRUE))

\* const perms = PERMISSION_MATRIX[method]; if (!perms) return false;
\* return perms[role] === true;
checkPermission(method, role) ==
    IF method \notin DOMAIN PERMISSION_MATRIX THEN FALSE
    ELSE PERMISSION_MATRIX[method][role] = TRUE

\* The middleware: METHOD_NOT_FOUND if the method is not in the matrix,
\* PERMISSION_DENIED if the role is not authorized.
RbacGate(method, role) ==
    IF method \notin DOMAIN PERMISSION_MATRIX THEN "METHOD_NOT_FOUND"
    ELSE IF checkPermission(method, role) THEN "ALLOW"
    ELSE "PERMISSION_DENIED"

-----------------------------------------------------------------------------
(* Gateway: responses, the idempotency store and the dispatch pipeline.     *)
(* All requests of a behaviour fall within one TTL window (24h), so a       *)
(* record that was stored is unexpired whenever it is looked up.            *)

OkResponse(res) == [result |-> Some(res), error |-> None]

ErrResponse(code) == [result |-> None, error |-> Some(code)]

\* A cached result returned for a duplicate key, with IDEMPOTENCY_KEY_CONFLICT
\* status.
CachedResponse(res) == [result |-> Some(res), error |-> Some("IDEMPOTENCY_KEY_CONFLICT")]

\* The issue list names the field.
HasIssueAt(error, field) ==
    \E i \in DOMAIN error.issues : error.issues[i].path = <<field>>

\* A rejection that answers an unknown method like any other malformed input.
RejectionCodeMalformed(error) ==
    IF InstanceOf(error, "IdempotencyKeyError") THEN "IDEMPOTENCY_KEY_REQUIRED"
    ELSE "INVALID_PARAMS"

\* The error code a rejection by parseRequestEnvelope is answered with: a
\* missing key IDEMPOTENCY_KEY_REQUIRED, an unknown method METHOD_NOT_FOUND,
\* any other malformed input INVALID_PARAMS.
RejectionCode(error) ==
    IF InstanceOf(error, "IdempotencyKeyError") THEN "IDEMPOTENCY_KEY_REQUIRED"
    ELSE IF HasIssueAt(error, "method") THEN "METHOD_NOT_FOUND"
    ELSE "INVALID_PARAMS"

\* The audit entry of an access denial (role, method).
RbacDenied(ctx, method) ==
    [type |-> "rbac.denied", deviceId |-> ctx.deviceId, role |-> ctx.role,
     method |-> method]

\* 4./5. Look up; found and not expired.
RecordFound(recs, nk) == nk \in DOMAIN recs

\* A store that also records the error of a failed handler.
StoresOutcomeAlways(ok) == TRUE

\* 6. execute handler, store result: a handler that throws leaves before the store.
StoresOutcome(ok) == ok

\* Storing a record: key is the PRIMARY KEY, the first row for a key stays.
StoreRecord(recs, nk, res) ==
    IF nk \in DOMAIN recs THEN recs ELSE recs @@ (nk :> [result |-> res])

\* The synchronous front of dispatch run with the idempotency lookup ahead of
\* the RBAC gate.
FrontLookupFirst(m, ctx, recs) ==
    LET out == parseRequestEnvelope(m) IN
    IF out.threw
    THEN [stages   |-> IF SchemaIssues(m) = <<>> THEN <<"validate", "keycheck">>
                       ELSE <<"validate">>,
          verdict  |-> "reject",
          response |-> ErrResponse(RejectionCode(out.error)),
          log      |-> <<>>]
    ELSE
    LET env  == out.data
        gate == RbacGate(env.method, ctx.role)
        idem == requiresIdempotencyKey(env.method)
        nk   == IF idem
                THEN buildIdempotencyKey(ctx.deviceId, env.method, env.idempotencyKey.v)
                ELSE <<>>
        pre  == IF idem THEN <<"validate", "keycheck", "params", "lookup", "rbac">>
                ELSE <<"validate", "keycheck", "params", "rbac">>
    IN  IF ~MethodParamsOk(env.method, env.params)
        THEN [stages   |-> <<"validate", "keycheck", "params">>,
              verdict  |-> "reject",
              response |-> ErrResponse("INVALID_PARAMS"),
              log      |-> <<>>]
        ELSE IF idem /\ RecordFound(recs, nk)
        THEN [stages   |-> <<"validate", "keycheck", "params", "lookup">>,
              verdict  |-> "hit",
              response |-> CachedResponse(recs[nk].result),
              log      |-> <<>>]
        ELSE IF gate # "ALLOW"
        THEN [stages |-> pre, verdict |-> "reject", response |-> ErrResponse(gate),
              log |-> IF gate = "PERMISSION_DENIED"
                      THEN <<RbacDenied(ctx, env.method)>> ELSE <<>>]
        ELSE [stages |-> pre \o <<"handler">>, verdict |-> "invoke", log |-> <<>>]

\* The synchronous front of dispatch: parse (with the key presence check) ->
\* validation of the params against the method's schema -> RBAC (a denial
\* is logged) -> idempotency lookup -> handler invocation.
Front(m, ctx, recs) ==
    LET out == parseRequestEnvelope(m) IN
    IF out.threw
    THEN [stages   |-> IF SchemaIssues(m) = <<>> THEN <<"validate", "keycheck">>
                       ELSE <<"validate">>,
          verdict  |-> "reject",
          response |-> ErrResponse(RejectionCode(out.error)),
          log      |-> <<>>]
    ELSE
    LET env  == out.data
        gate == RbacGate(env.method, ctx.role)
        idem == requiresIdempotencyKey(env.method)
        nk   == IF idem
                THEN buildIdempotencyKey(ctx.deviceId, env.method, env.idempotencyKey.v)
                ELSE <<>>
        pre  == <<"validate", "keycheck", "params", "rbac">>
    IN  IF ~MethodParamsOk(env.method, env.params)
        THEN [stages   |-> <<"validate", "keycheck", "params">>,
              verdict  |-> "reject",
              response |-> ErrResponse("INVALID_PARAMS"),
              log      |-> <<>>]
        ELSE IF gate # "ALLOW"
        THEN [stages |-> pre, verdict |-> "reject", response |-> ErrResponse(gate),
              log |-> IF gate = "PERMISSION_DENIED"
                      THEN <<RbacDenied(ctx, env.method)>> ELSE <<>>]
        ELSE IF ~idem
        THEN [stages |-> pre \o <<"handler">>, verdict |-> "invoke", log |-> <<>>]
        ELSE IF RecordFound(recs, nk)
        THEN [stages   |-> pre \o <<"lookup">>,
              verdict  |-> "hit",
              response |-> CachedResponse(recs[nk].result),
              log      |-> <<>>]
        ELSE [stages |-> pre \o <<"lookup", "handler">>, verdict |-> "invoke",
              log |-> <<>>]

-----------------------------------------------------------------------------
(* Bounds and the inputs drawn.                                             *)

MaxRequests == 3

Slots == 1..MaxRequests

HandlerResults == {"ra", "rb"}

\* The authenticated connections requests arrive on (RpcContext).
Connections ==
    {[deviceId |-> <<"d1">>, role |-> "client"],
     [deviceId |-> <<"d2">>, role |-> "node"]}

\* { sessionId: "s1", content: "hi", agentId: "a1" }: params that satisfy the
\* schemas of message.send, agent.run and status.get.
FullParams ==
    <<<<"sessionId", Str(<<"s1">>)>>, <<"content", Str(<<"hi">>)>>,
      <<"agentId", Str(<<"a1">>)>>>>

Request(method, key, params) ==
    [object |-> TRUE, version |-> Some(PROTOCOL_VERSION), id |-> Some(<<"r1">>),
     method |-> Some(method), params |-> Some(params), idempotencyKey |-> key,
     ts |-> Some(1)]

WellFormed(method, key) == Request(method, key, FullParams)

\* The messages the router is driven with: two idempotency-required methods,
\* each with and without an idempotency key and with params {} and full
\* params, a method that needs neither and a method outside the enumerated
\* set.
RouterMessages ==
    {Request(m, k, p) :
        m \in {"message.send", "agent.run"},
        k \in {None, Some(<<"k1">>)},
        p \in {EmptyParams, FullParams}}
        \cup {Request("status.get", None, EmptyParams),
              Request("foo.bar", None, EmptyParams)}

\* The raw values the codec is driven with: every combination of a missing,
\* an invalid and a valid value per field, and a value that is no object.
NotAnObject ==
    [object |-> FALSE, version |-> None, id |-> None, method |-> None,
     params |-> None, idempotencyKey |-> None, ts |-> None]

RawValues ==
    {NotAnObject} \cup
    [object         : {TRUE},
     version        : {None, Some("1.0"), Some("2.0")},
     id             : {None, Some(<<>>), Some(<<"r1">>)},
     method         : {None} \cup {Some(m) : m \in RPC_METHODS \cup {"foo.bar"}},
     params         : {None, Some(EmptyParams)},
     idempotencyKey : {None, Some(<<>>), Some(<<" ">>), Some(<<"k1">>),
                       Some(<<" ", "k1", " ">>)},
     ts             : {None, Some(0), Some(1)}]

-----------------------------------------------------------------------------
(* The idle values of each component, for the specifications that do not    *)
(* exercise it.                                                             *)

CodecIdle == raw = None /\ parsed = None

RouterIdle ==
    /\ req = <<>> /\ pc = <<>> /\ resp = <<>> /\ trace = <<>> /\ records = <<>>

LockIdle ==
    /\ locks = <<>> /\ promises = 0 /\ resolved = {} /\ run = <<>> /\ cancelReq = {}

GatewayIdle ==
    /\ conn = <<>> /\ devices = <<>> /\ nonces = <<>> /\ now = 0 /\ tokens = {}
    /\ registry = <<>> /\ revoke = <<>> /\ audit = <<>>
    /\ outbox = <<>> /\ delivered = <<>> /\ published = 0 /\ buffered = <<>>
    /\ issued = <<>> /\ heartbeat = <<>>

SharedIdle == arg = None /\ ret = None

HookIdle == hooks = <<>> /\ regLog = <<>> /\ execs = <<>>

ToolIdle == completedCalls = <<>> /\ toolCall = <<>> /\ toolLog = <<>>

ContextIdle == transcript = <<>> /\ compacted = <<>>

RestIdle == SharedIdle /\ HookIdle /\ ToolIdle /\ ContextIdle

-----------------------------------------------------------------------------
(* The router: one slot per request, in order of arrival.                   *)

RouterInit ==
    /\ req     = [r \in Slots |-> None]
    /\ pc      = [r \in Slots |-> "new"]
    /\ resp    = [r \in Slots |-> None]
    /\ trace   = [r \in Slots |-> <<>>]
    /\ records = <<>>

Envelope(r) == parseRequestEnvelope(req[r].v.msg).data

\* The namespaced key of a dispatched, accepted request of an idempotent method
NKey(r) ==
    buildIdempotencyKey(req[r].v.ctx.deviceId, Envelope(r).method,
                        Envelope(r).idempotencyKey.v)

UsesStore(r) == requiresIdempotencyKey(Envelope(r).method)

\* A message arrives on a connection and runs through the synchronous front
\* of dispatch; it is answered at once (an access denial is also written to
\* the audit log) or its handler is now running.
Dispatch(r, m, ctx) ==
    /\ pc[r] = "new"
    /\ \A q \in Slots : q < r => pc[q] # "new"
    /\ LET f == Front(m, ctx, records) IN
       /\ req'   = [req EXCEPT ![r] = Some([msg |-> m, ctx |-> ctx])]
       /\ trace' = [trace EXCEPT ![r] = f.stages]
       /\ IF f.verdict = "invoke"
          THEN pc' = [pc EXCEPT ![r] = "executing"] /\ resp' = resp
          ELSE /\ pc'   = [pc EXCEPT ![r] = "done"]
               /\ resp' = [resp EXCEPT ![r] = Some(f.response)]
       /\ audit' = audit \o f.log
    /\ UNCHANGED <<records, codecVars, lockVars, conn, devices, nonces, now, tokens,
                   registry, revoke, issued, heartbeat, busVars,
                   sharedVars, hookVars, toolVars, ctxVars>>

\* The handler's promise resolves: store the result, respond.
HandlerReturns(r, res) ==
    /\ pc[r] = "executing"
    /\ pc'   = [pc EXCEPT ![r] = "done"]
    /\ resp' = [resp EXCEPT ![r] = Some(OkResponse(res))]
    /\ IF UsesStore(r) /\ StoresOutcome(TRUE)
       THEN /\ records' = StoreRecord(records, NKey(r), res)
            /\ trace'   = [trace EXCEPT ![r] = @ \o <<"cache">>]
       ELSE UNCHANGED <<records, trace>>
    /\ UNCHANGED <<req, codecVars, lockVars, authVars, busVars,
                   sharedVars, hookVars, toolVars, ctxVars>>

\* The handler's promise rejects: respond with an error.
HandlerThrows(r) ==
    /\ pc[r] = "executing"
    /\ pc'   = [pc EXCEPT ![r] = "done"]
    /\ resp' = [resp EXCEPT ![r] = Some(ErrResponse("INTERNAL_ERROR"))]
    /\ IF UsesStore(r) /\ StoresOutcome(FALSE)
       THEN /\ records' = StoreRecord(records, NKey(r), "error")
            /\ trace'   = [trace EXCEPT ![r] = @ \o <<"cache">>]
       ELSE UNCHANGED <<records, trace>>
    /\ UNCHANGED <<req, codecVars, lockVars, authVars, busVars,
                   sharedVars, hookVars, toolVars, ctxVars>>

Init == RouterInit /\ CodecIdle /\ LockIdle /\ GatewayIdle /\ RestIdle

Next ==
    \/ \E r \in Slots, m \in RouterMessages, ctx \in Connections : Dispatch(r, m, ctx)
    \/ \E r \in Slots, res \in HandlerResults : HandlerReturns(r, res)
    \/ \E r \in Slots : HandlerThrows(r)

Spec == Init /\ [][Next]_vars

-----------------------------------------------------------------------------
(* The codec on its own: one raw value, parsed once.                        *)

CodecInit == raw \in {Some(v) : v \in RawValues} /\ parsed = None

SafeParse ==
    /\ parsed = None
    /\ parsed' = Some(safeParseRequestEnvelope(raw.v))
    /\ UNCHANGED <<raw, routerVars, lockVars, authVars, busVars,
                   sharedVars, hookVars, toolVars, ctxVars>>

InitCodec == CodecInit /\ RouterIdle /\ LockIdle /\ GatewayIdle /\ RestIdle

SpecCodec == InitCodec /\ [][SafeParse]_vars

\* The envelope has the six fields in their valid shapes (stated on the raw
\* value itself, not through the schema's issue list).
StructurallyValid(r) ==
    /\ r.object
    /\ r.version = Some("1.0")
    /\ r.id.some /\ r.id.v # <<>>
    /\ r.method.some
    /\ r.method.v \in {"session.resolve", "message.send", "agent.run", "agent.cancel",
                       "status.get", "node.exec.request", "node.exec.approve",
                       "device.revoke", "plugin.disable"}
    /\ r.params.some
    /\ r.idempotencyKey.some => \E i \in DOMAIN r.idempotencyKey.v : r.idempotencyKey.v[i] # " "
    /\ r.ts.some /\ r.ts.v >= 1

\* C6: a structurally valid request is rejected exactly when its method is one
\* of message.send, agent.run, node.exec.request, node.exec.approve and it
\* carries no idempotencyKey; the rejection is the missing-key error, and every
\* other structurally valid request is accepted with its envelope.
C6_MissingKeyRejectedIff ==
    (parsed.some /\ StructurallyValid(raw.v)) =>
        /\ ~parsed.v.threw
        /\ (~parsed.v.success) <=>
              /\ raw.v.method.v \in {"message.send", "agent.run",
                                     "node.exec.request", "node.exec.approve"}
              /\ ~raw.v.idempotencyKey.some
        /\ ~parsed.v.success => InstanceOf(parsed.v.error, "IdempotencyKeyError")
        /\ parsed.v.success => parsed.v.data.method = raw.v.method.v

C6_Witness ==
    /\ parsed.some /\ StructurallyValid(raw.v)
    /\ raw.v.method.v = "message.send" /\ ~raw.v.idempotencyKey.some
    /\ ~parsed.v.success

\* C7: the kind of a rejection (the error's name, and its most specific class)
\* is IdempotencyKeyError exactly for a structurally valid request that lacks
\* a required key, and ProtocolValidationError exactly for a structural
\* failure; safeParseRequestEnvelope hands the same typed error on.
C7_DistinctErrorKind ==
    (parsed.some /\ ~parsed.v.threw /\ ~parsed.v.success) =>
        LET e == parsed.v.error IN
        /\ e.name \in {"ProtocolValidationError", "IdempotencyKeyError"}
        /\ (e.name = "IdempotencyKeyError") <=> StructurallyValid(raw.v)
        /\ (e.name = "ProtocolValidationError") <=> ~StructurallyValid(raw.v)
        /\ InstanceOf(e, "IdempotencyKeyError") <=> (e.name = "IdempotencyKeyError")
        /\ e = parseRequestEnvelope(raw.v).error

C7_Witness ==
    /\ parsed.some /\ ~parsed.v.threw /\ ~parsed.v.success
    /\ parsed.v.error.name = "IdempotencyKeyError"
    /\ raw.v.method.v = "agent.run"

-----------------------------------------------------------------------------
(* Properties of the router.                                                *)

Stages(r) == {trace[r][i] : i \in DOMAIN trace[r]}

Dispatched(r) == pc[r] # "new"

\* The request passed validation and the RBAC gate
Accepted(r) ==
    /\ Dispatched(r) /\ "rbac" \in Stages(r)
    /\ Stages(r) # {"validate", "keycheck", "params", "rbac"}

Invoked(r) == "handler" \in Stages(r)

\* Answered from the idempotency store, without its handler
Replayed(r) == pc[r] = "done" /\ "lookup" \in Stages(r) /\ ~Invoked(r)

\* Answered with its own handler's result
Served(r) == pc[r] = "done" /\ Invoked(r) /\ resp[r].v.result.some

Failed(r) == pc[r] = "done" /\ Invoked(r) /\ resp[r].v.error.some

SameKey(a, b) ==
    /\ Accepted(a) /\ Accepted(b) /\ UsesStore(a) /\ UsesStore(b)
    /\ NKey(a) = NKey(b)

\* C1: of the requests carrying one (deviceId, method, idempotencyKey), at
\* most one has its handler executed, attempts that failed aside.
C1_HandlerAtMostOnce ==
    \A a, b \in Slots :
        (a # b /\ SameKey(a, b) /\ Invoked(a) /\ Invoked(b)) => (Failed(a) \/ Failed(b))

\* The first request with the key of c that was answered with a result
FirstAnswered(c) ==
    CHOOSE f \in Slots :
        /\ SameKey(f, c) /\ pc[f] = "done" /\ resp[f].v.result.some
        /\ \A g \in Slots :
              (SameKey(g, c) /\ pc[g] = "done" /\ resp[g].v.result.some) => f <= g

\* C4: a request answered from an unexpired record has no handler invoked and
\* its response is the one the first request with that key was given.
C4_ReplayIdenticalToFirst ==
    \A c \in Slots :
        Replayed(c) =>
            /\ resp[c].v.result.some
            /\ resp[c] = resp[FirstAnswered(c)]

\* C5: every record of the store holds the result of a handler that returned
\* (a key whose attempts all failed has no record), and a request is answered
\* without its handler only if some request with its key was served: after
\* failures alone, a retry invokes the handler again.
C5_FailureNeverCached ==
    /\ \A k \in DOMAIN records :
          \E r \in Slots :
              /\ Served(r) /\ UsesStore(r) /\ NKey(r) = k
              /\ resp[r].v = OkResponse(records[k].result)
    /\ \A c \in Slots :
          Replayed(c) => \E f \in Slots : f # c /\ SameKey(f, c) /\ Served(f)

C5_Witness ==
    \E a, b \in Slots :
        /\ a < b /\ SameKey(a, b)
        /\ Failed(a) /\ Served(b)
        /\ NKey(b) \in DOMAIN records

StageRank(st) ==
    CASE st = "validate" -> 1
      [] st = "keycheck" -> 2
      [] st = "params"   -> 3
      [] st = "rbac"     -> 4
      [] st = "lookup"   -> 5
      [] st = "handler"  -> 6
      [] st = "cache"    -> 7

\* The error code of the response of r, if it is an error
ErrorOf(r) == IF resp[r].some /\ resp[r].v.error.some THEN resp[r].v.error.v ELSE "none"

\* C8: the stages a request passes are, in this order and without gaps before
\* the last one reached, validation, key presence, validation of the params,
\* RBAC, lookup, handler, caching (lookup and caching only for methods that
\* use the store); a request rejected by validation, by the key check or by
\* RBAC stops at that stage, so an RBAC denial causes no lookup, no handler
\* execution and no record.
C8_StagesInOrder ==
    \A r \in Slots :
        Dispatched(r) =>
            /\ trace[r] # <<>> /\ trace[r][1] = "validate"
            /\ \A i, j \in DOMAIN trace[r] :
                  i < j => StageRank(trace[r][i]) < StageRank(trace[r][j])
            /\ "handler" \in Stages(r) =>
                  {"validate", "keycheck", "params", "rbac"} \subseteq Stages(r)
            /\ "lookup" \in Stages(r) =>
                  {"validate", "keycheck", "params", "rbac"} \subseteq Stages(r)
            /\ "cache" \in Stages(r) => {"lookup", "handler"} \subseteq Stages(r)
            /\ ("handler" \in Stages(r) /\ UsesStore(r)) => "lookup" \in Stages(r)
            /\ ErrorOf(r) = "METHOD_NOT_FOUND" => trace[r] = <<"validate">>
            /\ ErrorOf(r) = "IDEMPOTENCY_KEY_REQUIRED" => trace[r] = <<"validate", "keycheck">>
            /\ ErrorOf(r) = "INVALID_PARAMS" => trace[r] = <<"validate", "keycheck", "params">>
            /\ ErrorOf(r) = "PERMISSION_DENIED" =>
                  /\ trace[r] = <<"validate", "keycheck", "params", "rbac">>
                  /\ requiresIdempotencyKey(req[r].v.msg.method.v) =>
                        \/ NKey(r) \notin DOMAIN records
                        \/ \E f \in Slots : f # r /\ Served(f) /\ UsesStore(f) /\ NKey(f) = NKey(r)

C8_Witness ==
    \E a, b \in Slots :
        /\ ErrorOf(a) = "PERMISSION_DENIED"
        /\ requiresIdempotencyKey(req[a].v.msg.method.v)
        /\ req[a].v.msg.idempotencyKey.some
        /\ trace[b] = <<"validate", "keycheck", "params", "rbac", "lookup", "handler", "cache">>

\* C9: no agent.run or message.send request of a node connection has its
\* handler invoked, whatever the store holds.
C9_NodeNeverRunsOrSends ==
    \A r \in Slots :
        (/\ Dispatched(r)
         /\ req[r].v.ctx.role = "node"
         /\ req[r].v.msg.method \in {Some("agent.run"), Some("message.send")})
        => (~Invoked(r) /\ pc[r] = "done" /\ resp[r].v.error.some)

C9_Witness ==
    \E r, q \in Slots :
        /\ Dispatched(r) /\ req[r].v.ctx.role = "node"
        /\ req[r].v.msg = WellFormed("agent.run", Some(<<"k1">>))
        /\ ErrorOf(r) = "PERMISSION_DENIED"
        /\ q < r /\ Served(q) /\ req[q].v.msg = WellFormed("agent.run", Some(<<"k1">>))

\* The request of slot r passes validation: it carries the key its method
\* requires and params that satisfy its method's schema.
PassesValidation(r) ==
    LET msg == req[r].v.msg IN
    /\ ~(requiresIdempotencyKey(msg.method.v) /\ ~msg.idempotencyKey.some)
    /\ MethodParamsOk(msg.method.v, msg.params.v)

\* C10: a request for a method absent from the permission matrix is answered
\* METHOD_NOT_FOUND; one for a listed method that the caller's role may not
\* call is answered with an error other than METHOD_NOT_FOUND, which is
\* PERMISSION_DENIED when the request passes validation; neither has its
\* handler invoked.
C10_UnlistedIsMethodNotFound ==
    \A r \in Slots :
        pc[r] = "done" =>
            LET m    == req[r].v.msg.method.v
                role == req[r].v.ctx.role
            IN  /\ m \notin DOMAIN PERMISSION_MATRIX =>
                      (ErrorOf(r) = "METHOD_NOT_FOUND" /\ ~Invoked(r))
                /\ (m \in DOMAIN PERMISSION_MATRIX /\ ~PERMISSION_MATRIX[m][role]) =>
                      /\ ~Invoked(r)
                      /\ ErrorOf(r) \notin {"none", "METHOD_NOT_FOUND"}
                      /\ PassesValidation(r) => ErrorOf(r) = "PERMISSION_DENIED"

\* A request for an unlisted method and a node's agent.run were both denied,
\* each with its own code.
C10_Witness ==
    \E a, b \in Slots :
        /\ req[a].some /\ req[a].v.msg.method.v = "foo.bar"
        /\ ErrorOf(a) = "METHOD_NOT_FOUND"
        /\ req[b].some /\ req[b].v.msg.method.v = "agent.run" /\ req[b].v.ctx.role = "node"
        /\ ErrorOf(b) = "PERMISSION_DENIED"

-----------------------------------------------------------------------------
(* Runtime: SessionLockManager and the agentic loop that runs under it.     *)
(* A promise is a number; 0 is Promise.resolve(), resolved from the start.  *)

MaxRuns == 2

MaxIterations == 1

Runs == 1..MaxRuns

\* agentId + ":" + sessionId
SessionKeys == {<<"a1", ":", "s1">>, <<"a1", ":", "s2">>}

IsResolved(p) == p = 0 \/ p \in resolved

\* One lock for all sessions: the latest promise stored under any key.
ExistingLockGlobal(lockMap, key) ==
    LET held == {lockMap[k] : k \in DOMAIN lockMap}
    IN  IF held = {} THEN 0 ELSE CHOOSE p \in held : \A o \in held : o <= p

\* this.locks.get(key) ?? Promise.resolve(), with the Map lookup dropped.
ExistingLockNone(lockMap, key) == 0

\* this.locks.get(key) ?? Promise.resolve()
ExistingLock(lockMap, key) == IF key \in DOMAIN lockMap THEN lockMap[key] ELSE 0

\* A set that keeps the promise already stored under the key.
SetLockKeepFirst(lockMap, key, next) ==
    IF key \in DOMAIN lockMap THEN lockMap ELSE lockMap @@ (key :> next)

\* this.locks.set(key, next)
SetLock(lockMap, key, next) ==
    IF key \in DOMAIN lockMap THEN [lockMap EXCEPT ![key] = next]
    ELSE lockMap @@ (key :> next)

\* await existing
AwaitedPromise(existing, next) == existing

\* A release function that resolves the oldest promise still pending,
\* whoever it belongs to.
ReleasedPromiseOldest(existing, next) ==
    LET pending == {p \in 1..promises : p \notin resolved}
    IN  IF pending = {} THEN next ELSE CHOOSE p \in pending : \A o \in pending : p <= o

\* A release function bound to the promise that was awaited.
ReleasedPromiseStale(existing, next) == existing

\* release = resolve, of the promise `next`
ReleasedPromise(existing, next) == next

RunningPhases == {"INTAKE", "CONTEXT_ASSEMBLY", "MODEL_CALL", "TOOL_DISPATCH", "PERSIST"}

TerminalPhases == {"COMPLETE", "CANCELLED", "ERROR"}

NewRun ==
    [key |-> <<>>, phase |-> "idle", existing |-> 0, next |-> 0,
     releases |-> 0, iter |-> 0, cause |-> "none", status |-> "none"]

TerminalStatuses == {"completed", "cancelled", "error"}

\* RunManager.cancel(runId): a running run becomes cancelled.
RunManagerCancel(status) == IF status = "running" THEN "cancelled" ELSE status

\* A complete that overwrites whatever status the run has.
RunManagerCompleteUnguarded(status, to) == to

\* RunManager.complete(runId, status): a running run becomes completed or
\* error; a run that has ended keeps its status.
RunManagerComplete(status, to) == IF status = "running" THEN to ELSE status

\* The status the loop reports when it ends in `phase` (a loop that stopped
\* at a checkpoint reports nothing: cancel has set the status).
ReportedStatus(phase) == IF phase = "COMPLETE" THEN "completed" ELSE "error"

\* A checkpoint that never sees the cancellation.
CancelObservedNever(status) == FALSE

\* The loop's checkpoint: has agent.cancel been issued for the run?
CancelObserved(status) == status = "cancelled"

\* A loop without the iteration limit.
IterationLimitNever(iter) == FALSE

\* The configurable maximum iteration count.
IterationLimitReached(iter) == iter >= MaxIterations

LockInit ==
    /\ locks = <<>>
    /\ promises = 0
    /\ resolved = {}
    /\ run = [r \in Runs |-> NewRun]
    /\ cancelReq = {}

\* agent.run: the loop calls acquire(sessionKey); everything up to the await
\* runs at once.
Acquire(r, key) ==
    /\ run[r].phase = "idle"
    /\ \A q \in DOMAIN run : q < r => run[q].phase # "idle"
    /\ LET existing == ExistingLock(locks, key)
           next     == promises + 1
       IN  /\ promises' = next
           /\ locks' = SetLock(locks, key, next)
           /\ run' = [run EXCEPT ![r] = [@ EXCEPT !.key = key, !.phase = "acquiring",
                                                  !.existing = existing, !.next = next,
                                                  !.status = "running"]]
    /\ UNCHANGED <<resolved, cancelReq, codecVars, routerVars, authVars, busVars,
                   sharedVars, hookVars, toolVars, ctxVars>>

\* The awaited promise is resolved: acquire returns the release function.
AcquireReturns(r) ==
    /\ run[r].phase = "acquiring"
    /\ IsResolved(AwaitedPromise(run[r].existing, run[r].next))
    /\ run' = [run EXCEPT ![r].phase = "INTAKE"]
    /\ UNCHANGED <<locks, promises, resolved, cancelReq, codecVars, routerVars, authVars, busVars,
                   sharedVars, hookVars, toolVars, ctxVars>>

\* The run ends in `phase` for `cause`; its release function is invoked.
Finish(r, phase, cause) ==
    /\ run' = [run EXCEPT ![r] = [@ EXCEPT !.phase = phase, !.cause = cause,
                                              !.releases = @ + 1,
                                              !.status = IF phase = "CANCELLED" THEN @
                                                         ELSE RunManagerComplete(@, ReportedStatus(phase))]]
    /\ resolved' = resolved \cup {ReleasedPromise(run[r].existing, run[r].next)}

Proceed(r, phase) ==
    /\ run' = [run EXCEPT ![r].phase = phase]
    /\ resolved' = resolved

\* onIntake, session resolution
Intake(r) ==
    /\ run[r].phase = "INTAKE"
    /\ Proceed(r, "CONTEXT_ASSEMBLY")
    /\ UNCHANGED <<locks, promises, cancelReq, codecVars, routerVars, authVars, busVars,
                   sharedVars, hookVars, toolVars, ctxVars>>

\* Context assembled; checkpoint before the first model call.
Assemble(r) ==
    /\ run[r].phase = "CONTEXT_ASSEMBLY"
    /\ IF CancelObserved(run[r].status) THEN Finish(r, "CANCELLED", "cancel")
       ELSE Proceed(r, "MODEL_CALL")
    /\ UNCHANGED <<locks, promises, cancelReq, codecVars, routerVars, authVars, busVars,
                   sharedVars, hookVars, toolVars, ctxVars>>

\* The model's stream ends with finish: stop or finish: tool_use; checkpoint
\* before the tool dispatch.
ModelReturns(r, finish) ==
    /\ run[r].phase = "MODEL_CALL"
    /\ IF finish = "stop" THEN Proceed(r, "PERSIST")
       ELSE IF CancelObserved(run[r].status) THEN Finish(r, "CANCELLED", "cancel")
       ELSE Proceed(r, "TOOL_DISPATCH")
    /\ UNCHANGED <<locks, promises, cancelReq, codecVars, routerVars, authVars, busVars,
                   sharedVars, hookVars, toolVars, ctxVars>>

\* The tool call in flight completes; checkpoint and iteration limit before
\* the next model call.
ToolReturns(r) ==
    /\ run[r].phase = "TOOL_DISPATCH"
    /\ IF CancelObserved(run[r].status) THEN Finish(r, "CANCELLED", "cancel_tool_discarded")
       ELSE IF IterationLimitReached(run[r].iter)
       THEN Finish(r, "ERROR", "max_iterations")
       ELSE /\ run' = [run EXCEPT ![r] = [@ EXCEPT !.phase = "MODEL_CALL",
                                                   !.iter = IF @ < MaxIterations THEN @ + 1 ELSE @]]
            /\ resolved' = resolved
    /\ UNCHANGED <<locks, promises, cancelReq, codecVars, routerVars, authVars, busVars,
                   sharedVars, hookVars, toolVars, ctxVars>>

\* The turn is appended to the transcript, onTurnComplete runs.
Persist(r) ==
    /\ run[r].phase = "PERSIST"
    /\ Finish(r, "COMPLETE", "stop")
    /\ UNCHANGED <<locks, promises, cancelReq, codecVars, routerVars, authVars, busVars,
                   sharedVars, hookVars, toolVars, ctxVars>>

\* The wall-clock timeout fires, or the adapter or the transcript writer fails.
Abort(r, cause) ==
    /\ run[r].phase \in RunningPhases
    /\ Finish(r, "ERROR", cause)
    /\ UNCHANGED <<locks, promises, cancelReq, codecVars, routerVars, authVars, busVars,
                   sharedVars, hookVars, toolVars, ctxVars>>

\* agent.cancel{runId}, at any time after the run was started.
Cancel(r) ==
    /\ run[r].status # "none"
    /\ r \notin cancelReq
    /\ cancelReq' = cancelReq \cup {r}
    /\ run' = [run EXCEPT ![r].status = RunManagerCancel(@)]
    /\ UNCHANGED <<locks, promises, resolved, codecVars, routerVars, authVars, busVars,
                   sharedVars, hookVars, toolVars, ctxVars>>

LoopStep(r) ==
    \/ AcquireReturns(r)
    \/ Intake(r)
    \/ Assemble(r)
    \/ \E finish \in {"stop", "tool_use"} : ModelReturns(r, finish)
    \/ ToolReturns(r)
    \/ Persist(r)

LockNext ==
    \/ \E r \in Runs, key \in SessionKeys : Acquire(r, key)
    \/ \E r \in Runs : LoopStep(r)
    \/ \E r \in Runs, cause \in {"timeout", "error"} : Abort(r, cause)
    \/ \E r \in Runs : Cancel(r)

InitLock == LockInit /\ CodecIdle /\ RouterIdle /\ GatewayIdle /\ RestIdle

SpecLock == InitLock /\ [][LockNext]_vars

\* The lock manager on its own: callers acquire, end (by timeout or error)
\* and may invoke the release function they were returned more than once.
MaxCallers == 3

\* The number of times a caller invokes its release function.
MaxReleases == 2

Callers == 1..MaxCallers

WaitersInit ==
    /\ locks = <<>>
    /\ promises = 0
    /\ resolved = {}
    /\ run = [r \in Callers |-> NewRun]
    /\ cancelReq = {}

\* The caller invokes its release function again: resolve, called on the
\* promise `next` once more.
ReleaseAgain(r) ==
    /\ run[r].releases >= 1
    /\ run[r].releases < MaxReleases
    /\ run' = [run EXCEPT ![r].releases = @ + 1]
    /\ resolved' = resolved \cup {ReleasedPromise(run[r].existing, run[r].next)}
    /\ UNCHANGED <<locks, promises, cancelReq, codecVars, routerVars, authVars, busVars,
                   sharedVars, hookVars, toolVars, ctxVars>>

WaitersNext ==
    \/ \E r \in Callers, key \in SessionKeys : Acquire(r, key)
    \/ \E r \in Callers : AcquireReturns(r)
    \/ \E r \in Callers, cause \in {"timeout", "error"} : Abort(r, cause)
    \/ \E r \in Callers : ReleaseAgain(r)

InitWaiters == WaitersInit /\ CodecIdle /\ RouterIdle /\ GatewayIdle /\ RestIdle

SpecWaiters == InitWaiters /\ [][WaitersNext]_vars

\* Every continuation that is ready is eventually run, and every model or
\* tool call eventually returns (or the wall-clock timeout ends it).
FairSpecLock == SpecLock /\ \A r \in Runs : WF_vars(LoopStep(r))

Holding(r) == run[r].phase \in RunningPhases

\* C2: no two runs of one session key are inside the loop at once: a run that
\* acquired after another stays out until that one's release was invoked.
C2_OneHolderPerSession ==
    \A a, b \in Runs :
        (a # b /\ run[a].key = run[b].key /\ Holding(a)) =>
            /\ ~Holding(b)
            /\ (b > a /\ run[b].phase \notin {"idle", "acquiring"}) => run[a].releases >= 1

C2_Witness ==
    \E a, b \in Runs :
        /\ a < b /\ run[a].key = run[b].key
        /\ Holding(a) /\ run[b].phase = "acquiring"

\* C3: a run invokes its release function exactly once, when it ends (by
\* finish: stop, cancellation, the iteration limit, the timeout or an error),
\* and not before; and every acquire for a session eventually returns.
C3_ReleasedExactlyOnce ==
    /\ [](\A r \in Runs :
            /\ run[r].releases <= 1
            /\ Holding(r) => run[r].releases = 0
            /\ run[r].phase \in TerminalPhases =>
                  (run[r].releases = 1 /\ IsResolved(run[r].next)))
    /\ \A r \in Runs : (run[r].phase = "acquiring") ~> (run[r].phase # "acquiring")

C3_Witness ==
    \E a, b \in Runs :
        /\ a < b /\ run[a].key = run[b].key
        /\ run[a].cause = "max_iterations" /\ run[a].releases = 1
        /\ run[b].phase = "CANCELLED" /\ run[b].releases = 1
        /\ run[b].existing = run[a].next

-----------------------------------------------------------------------------
(* The gateway: the connect handshake (HMAC verification, nonce replay      *)
(* window, device approval, session token), the connection registry and     *)
(* device.revoke.  Server time is counted in units of the window's          *)
(* resolution.                                                              *)

MaxConns == 2

MaxTime == 2

\* The nonce window (configurable, default 300 seconds), in time units.
NonceWindow == 1

ConnIds == 1..MaxConns

\* createHmac('sha256', sharedSecret).update(data).digest('hex'): one atom,
\* a run of 64 hex characters determined by the secret and the data.
HmacSha256Hex(sharedSecret, data) == <<ToString(<<sharedSecret, data>>)>>

\* timingSafeEqual(Buffer.from(a), Buffer.from(b)) throws on buffers of
\* different lengths.
timingSafeEqual(a, b) ==
    IF Len(a) # Len(b) THEN [threw |-> TRUE]
    ELSE [threw |-> FALSE, value |-> (a = b)]

validateAuthToken(deviceId, nonce, timestamp, authToken, sharedSecret) ==
    LET expected == HmacSha256Hex(sharedSecret,
                                  deviceId \o nonce \o <<ToString(timestamp)>>)
    IN  timingSafeEqual(authToken, expected)

\* ConnectSchema: role, deviceId, authToken, nonce (agentId and capabilities
\* are optional and not modelled).  The schema has no timestamp field.
ConnectSchemaOk(m) ==
    /\ m.role \in ROLES
    /\ NonEmptyStringOk(m.deviceId)
    /\ NonEmptyStringOk(m.authToken)
    /\ NonEmptyStringOk(m.nonce)

ConnectSchemaData(m) ==
    [role |-> m.role, deviceId |-> Trim(m.deviceId),
     authToken |-> Trim(m.authToken), nonce |-> Trim(m.nonce)]

\* The devices as pairing left them: d1 and d2 approved, d3 paired but not
\* approved.
PairedDevices ==
    (<<"d1">> :> [role |-> "client", sharedSecret |-> <<"s1">>, approved |-> TRUE]) @@
    (<<"d2">> :> [role |-> "node",   sharedSecret |-> <<"s2">>, approved |-> TRUE]) @@
    (<<"d3">> :> [role |-> "client", sharedSecret |-> <<"s3">>, approved |-> FALSE])

\* DeviceStore.revoke(deviceId)
DeviceStoreRevoke(devs, d) == [devs EXCEPT ![d].approved = FALSE]

\* DeviceStore.approve(deviceId)
DeviceStoreApprove(devs, d) == [devs EXCEPT ![d].approved = TRUE]

\* DeviceStore.create(device): a new row, approved DEFAULT 0; id is the
\* primary key.
DeviceStoreCreate(devs, device) ==
    IF device.id \in DOMAIN devs THEN devs
    ELSE devs @@ (device.id :> [role |-> device.role,
                                sharedSecret |-> device.sharedSecret,
                                approved |-> FALSE])

\* The devices that ask to be paired while the gateway runs.
NewDevices == {[id |-> <<"d4">>, role |-> "client", sharedSecret |-> <<"s4">>]}

\* What each device holds: its role and the secret it signs with.
Credentials ==
    [d \in DOMAIN PairedDevices \cup {nd.id : nd \in NewDevices} |->
        IF d \in DOMAIN PairedDevices
        THEN [role |-> PairedDevices[d].role, sharedSecret |-> PairedDevices[d].sharedSecret]
        ELSE LET nd == CHOOSE x \in NewDevices : x.id = d
             IN  [role |-> nd.role, sharedSecret |-> nd.sharedSecret]]

\* A nonce check that finds nothing.
NonceSeenNever(ns, nonce, t) == FALSE

\* Reject any nonce seen within the sliding window.
NonceSeen(ns, nonce, t) == nonce \in DOMAIN ns /\ t < ns[nonce].expiresAt

\* Store the used nonce with its expiry.
RecordNonce(ns, nonce, deviceId, t) ==
    LET rec == [deviceId |-> deviceId, createdAt |-> t, expiresAt |-> t + NonceWindow]
    IN  IF nonce \in DOMAIN ns THEN [ns EXCEPT ![nonce] = rec]
        ELSE ns @@ (nonce :> rec)

\* The periodic cleanup of expired nonces.
PurgeExpired(ns, t) == [n \in {x \in DOMAIN ns : ns[x].expiresAt > t} |-> ns[n]]

\* An approval check that lets every paired device through.
DeviceApprovedAlways(devs, d) == d \in DOMAIN devs

\* Check device approval status.
DeviceApproved(devs, d) == d \in DOMAIN devs /\ devs[d].approved

\* The checks of the connect handshake in their order: signature, nonce
\* window, approval.  Every connect names a paired device.
Authenticate(m, devs, ns, t) ==
    IF ~ConnectSchemaOk(m) THEN "INVALID_HANDSHAKE"
    ELSE
        LET c == ConnectSchemaData(m)
            v == validateAuthToken(c.deviceId, c.nonce, m.timestamp, c.authToken,
                                   devs[c.deviceId].sharedSecret)
        IN  IF v.threw \/ ~v.value THEN "AUTH_FAILED"
            ELSE IF NonceSeen(ns, c.nonce, t) THEN "NONCE_REUSED"
            ELSE IF ~DeviceApproved(devs, c.deviceId) THEN "DEVICE_NOT_APPROVED"
            ELSE "connect_ok"

\* The handshake records the nonce once the signature and the nonce check
\* have passed.
RecordsNonce(code) == code \in {"DEVICE_NOT_APPROVED", "connect_ok"}

\* The opaque session token (a random UUID) issued to connection c: the n-th
\* token issued on c differs from every other token.
SessionToken(c, n) == <<"tok", c, n>>


\* ConnectionManager: add, remove, getByDevice, disconnectDevice.
RegistryAdd(reg, c, entry) == (c :> entry) @@ reg

RegistryRemove(reg, cs) == [c \in DOMAIN reg \ cs |-> reg[c]]

getByDevice(reg, d) == {c \in DOMAIN reg : reg[c].deviceId = d}

\* A disconnectDevice that closes one connection of the device only.
disconnectDeviceFirstOnly(reg, d) ==
    LET mine == getByDevice(reg, d)
        hit  == IF mine = {} THEN {} ELSE {CHOOSE c \in mine : \A o \in mine : c <= o}
    IN  [closed |-> hit, count |-> Cardinality(hit), registry |-> RegistryRemove(reg, hit)]

\* disconnectDevice(deviceId): closes every connection registered for the
\* device and returns how many it closed.
disconnectDevice(reg, d) ==
    LET mine == getByDevice(reg, d)
    IN  [closed |-> mine, count |-> Cardinality(mine), registry |-> RegistryRemove(reg, mine)]

\* The sockets of the connections in cs are closed.
CloseSockets(cn, cs) ==
    [c \in DOMAIN cn |-> IF c \in cs THEN [cn[c] EXCEPT !.state = "CLOSED"] ELSE cn[c]]

\* The connect messages the devices (and an eavesdropper holding a captured
\* handshake) send at server time t.
SignedConnect(d, n, ts) ==
    [role |-> Credentials[d].role, deviceId |-> d, nonce |-> n, timestamp |-> ts,
     authToken |-> HmacSha256Hex(Credentials[d].sharedSecret,
                                 d \o n \o <<ToString(ts)>>)]

ForgedConnect(d, n, ts) ==
    [SignedConnect(d, n, ts) EXCEPT
        !.authToken = HmacSha256Hex(<<"guess">>, d \o n \o <<ToString(ts)>>)]

ConnectMessages(t) ==
    {SignedConnect(<<"d1">>, <<"n1">>, ts) : ts \in {0, t}}
        \cup {SignedConnect(<<"d1">>, <<"n2">>, t),
              SignedConnect(<<"d2">>, <<"n2">>, t),
              SignedConnect(<<"d3">>, <<"n2">>, t),
              ForgedConnect(<<"d1">>, <<"n1">>, t),
              [SignedConnect(<<"d1">>, <<"n1">>, t) EXCEPT !.nonce = <<" ">>]}

MaxEvents == 2

\* The bound of a connection's outbound queue.
MaxQueue == 2

\* The buffered-write threshold of a socket, in events: with 0, a socket
\* holding any unread event is over the threshold.
Threshold == 0

Events == 1..MaxEvents

\* A closed connection's queued events are discarded with it.
DropQueues(ob, cs) == [c \in DOMAIN ob |-> IF c \in cs THEN <<>> ELSE ob[c]]

\* A connection's socket as the bus sees it: the events queued for it, the
\* events written to it (in the order of the writes) and bufferedAmount.
Socket(c) == [queue |-> outbox[c], sent |-> delivered[c], buffered |-> buffered[c]]

\* socket.bufferedAmount exceeds threshold
Backpressure(sock) == sock.buffered > Threshold

\* socket.send(data)
SocketSend(sock, e) == [sock EXCEPT !.sent = Append(@, e), !.buffered = @ + 1]

\* A safeSend that queues without a bound.
safeSendUnbounded(sock, e) ==
    IF Backpressure(sock) \/ sock.queue # <<>>
    THEN [sock EXCEPT !.queue = Append(@, e)]
    ELSE SocketSend(sock, e)

\* A safeSend that writes whenever the socket has room, queued events or not.
safeSendOvertaking(sock, e) ==
    IF Backpressure(sock)
    THEN IF Len(sock.queue) < MaxQueue THEN [sock EXCEPT !.queue = Append(@, e)]
         ELSE sock
    ELSE SocketSend(sock, e)

\* safeSend: under backpressure, or behind events already queued, the event
\* is queued, or dropped with a warning when the bounded queue is full;
\* otherwise it is written to the socket.
safeSend(sock, e) ==
    IF Backpressure(sock) \/ sock.queue # <<>>
    THEN IF Len(sock.queue) < MaxQueue THEN [sock EXCEPT !.queue = Append(@, e)]
         ELSE sock
    ELSE SocketSend(sock, e)

\* The sockets after the event was handed to safeSend for each of `cs`.
SendTo(cs, e) == [c \in ConnIds |-> IF c \in cs THEN safeSend(Socket(c), e) ELSE Socket(c)]

\* The devices device.revoke is issued for.
RevokedDevices == {<<"d1">>}

\* The audit event type of a handled connect.
AuthEventType(code) ==
    CASE code = "connect_ok"   -> "auth.connect.success"
      [] code = "NONCE_REUSED" -> "auth.nonce.replayed"
      [] OTHER                 -> "auth.connect.failure"

\* Invalidate all tokens for deviceId.
InvalidateTokens(tks, cn, d) == {tk \in tks : Trim(cn[tk[2]].msg.v.deviceId) # d}

AuthInit ==
    /\ conn = [c \in ConnIds |-> [state |-> "AWAITING_HANDSHAKE", msg |-> None]]
    /\ devices = PairedDevices
    /\ nonces = <<>>
    /\ now = 0
    /\ tokens = {}
    /\ registry = <<>>
    /\ revoke = [d \in RevokedDevices |-> [stage |-> "none", count |-> 0]]
    /\ audit = <<>>
    /\ issued = [c \in ConnIds |-> 0]
    /\ heartbeat = [c \in ConnIds |-> None]

GatewayInit ==
    AuthInit /\ outbox = <<>> /\ delivered = <<>> /\ published = 0 /\ buffered = <<>>

BusInit ==
    /\ AuthInit
    /\ outbox = [c \in ConnIds |-> <<>>]
    /\ delivered = [c \in ConnIds |-> <<>>]
    /\ published = 0
    /\ buffered = [c \in ConnIds |-> 0]

\* Device->>GW: connect { deviceId, nonce, timestamp, hmacSignature }: the
\* gateway handles the message in one turn (every step of it is a
\* synchronous call): the checks, the session token, the registration, the
\* reply and the audit entry.  Connections send their connect in the order
\* they were opened.
Handshake(c, m) ==
    /\ conn[c].state = "AWAITING_HANDSHAKE"
    /\ \A o \in ConnIds : o < c => conn[o].state # "AWAITING_HANDSHAKE"
    /\ LET code == Authenticate(m, devices, nonces, now)
       IN  /\ nonces' = IF RecordsNonce(code)
                        THEN RecordNonce(nonces, Trim(m.nonce), Trim(m.deviceId), now)
                        ELSE nonces
           /\ IF code = "connect_ok"
              THEN /\ conn' = [conn EXCEPT ![c] = [state |-> "AUTHENTICATED", msg |-> Some(m)]]
                   /\ tokens' = tokens \cup {SessionToken(c, issued[c] + 1)}
                   /\ issued' = [issued EXCEPT ![c] = @ + 1]
                   /\ registry' = RegistryAdd(registry, c,
                                      [deviceId |-> Trim(m.deviceId), role |-> m.role,
                                       sessionToken |-> SessionToken(c, issued[c] + 1)])
              ELSE /\ conn' = [conn EXCEPT ![c] = [state |-> "CLOSED", msg |-> Some(m)]]
                   /\ UNCHANGED <<tokens, registry, issued>>
           /\ audit' = Append(audit, [type |-> AuthEventType(code), conn |-> c,
                                      msg |-> m, at |-> now, code |-> code,
                                      revoked |-> {d \in RevokedDevices :
                                                       revoke[d].stage = "done"}])
    /\ UNCHANGED <<devices, now, revoke, busVars, codecVars, routerVars, lockVars,
                   heartbeat, sharedVars, hookVars, toolVars, ctxVars>>

\* The peer disconnects, or the socket fails.
Disconnect(c) ==
    /\ conn[c].state # "CLOSED"
    /\ conn' = [conn EXCEPT ![c].state = "CLOSED"]
    /\ registry' = RegistryRemove(registry, {c})
    /\ tokens' = {tk \in tokens : tk[2] # c}
    /\ outbox' = DropQueues(outbox, {c})
    /\ UNCHANGED <<devices, nonces, now, revoke, audit, delivered, published, buffered,
                   codecVars, routerVars, lockVars,
                   issued, heartbeat, sharedVars, hookVars, toolVars,
                   ctxVars>>

Tick ==
    /\ now < MaxTime
    /\ now' = now + 1
    /\ UNCHANGED <<conn, devices, nonces, tokens, registry, revoke, audit, busVars,
                   codecVars, routerVars, lockVars,
                   issued, heartbeat, sharedVars, hookVars, toolVars,
                   ctxVars>>

SweepNonces ==
    /\ PurgeExpired(nonces, now) # nonces
    /\ nonces' = PurgeExpired(nonces, now)
    /\ UNCHANGED <<conn, devices, now, tokens, registry, revoke, audit, busVars,
                   codecVars, routerVars, lockVars,
                   issued, heartbeat, sharedVars, hookVars, toolVars,
                   ctxVars>>

\* device.revoke { deviceId }, a single operation of synchronous calls:
\* remove the device from the approved devices, find its connections and
\* close each, invalidate its tokens, log the revocation, reply
\* device.revoked.
Revoke(d) ==
    /\ revoke[d].stage = "none"
    /\ LET res == disconnectDevice(registry, d)
       IN  /\ devices' = DeviceStoreRevoke(devices, d)
           /\ registry' = res.registry
           /\ conn' = CloseSockets(conn, res.closed)
           /\ outbox' = DropQueues(outbox, res.closed)
           /\ revoke' = [revoke EXCEPT ![d] = [stage |-> "done", count |-> res.count]]
    /\ tokens' = InvalidateTokens(tokens, conn, d)
    /\ audit' = Append(audit, [type |-> "device.revoked", deviceId |-> d, at |-> now])
    /\ UNCHANGED <<nonces, now, delivered, published, buffered,
                   codecVars, routerVars, lockVars,
                   issued, heartbeat, sharedVars, hookVars, toolVars,
                   ctxVars>>

\* The operator approves a device of the store that is not approved: one
\* that was paired and never approved, or one that was revoked.
Approve(d) ==
    /\ d \in DOMAIN devices /\ ~devices[d].approved
    /\ devices' = DeviceStoreApprove(devices, d)
    /\ revoke' = [r \in DOMAIN revoke |->
                     IF r = d /\ revoke[r].stage = "done"
                     THEN [revoke[r] EXCEPT !.stage = "lifted"] ELSE revoke[r]]
    /\ audit' = Append(audit, [type |-> "device.approved", deviceId |-> d, at |-> now])
    /\ UNCHANGED <<conn, nonces, now, tokens, registry, busVars,
                   codecVars, routerVars, lockVars,
                   issued, heartbeat, sharedVars, hookVars, toolVars,
                   ctxVars>>

\* A pairing request: the device is created, unapproved.
Create(device) ==
    /\ device.id \notin DOMAIN devices
    /\ devices' = DeviceStoreCreate(devices, device)
    /\ UNCHANGED <<conn, nonces, now, tokens, registry, revoke, audit, busVars,
                   codecVars, routerVars, lockVars,
                   issued, heartbeat, sharedVars, hookVars, toolVars,
                   ctxVars>>

GatewayNext ==
    \/ \E c \in ConnIds, m \in ConnectMessages(now) : Handshake(c, m)
    \/ \E c \in ConnIds : Disconnect(c)
    \/ Tick
    \/ SweepNonces
    \/ \E d \in RevokedDevices : Revoke(d)
    \/ \E d \in RevokedDevices : Approve(d)

\* EventBus.broadcast(event): the event is handed to the socket of every
\* registered connection.
Broadcast(e) ==
    /\ e = published + 1
    /\ published' = e
    /\ LET socks == SendTo(DOMAIN registry, e)
       IN  /\ outbox' = [c \in ConnIds |-> socks[c].queue]
           /\ delivered' = [c \in ConnIds |-> socks[c].sent]
           /\ buffered' = [c \in ConnIds |-> socks[c].buffered]
    /\ UNCHANGED <<authVars, codecVars, routerVars, lockVars,
                   sharedVars, hookVars, toolVars, ctxVars>>

\* The backpressure on connection c has cleared: its oldest queued event is
\* written to the socket.
Flush(c) ==
    /\ conn[c].state = "AUTHENTICATED"
    /\ outbox[c] # <<>>
    /\ ~Backpressure(Socket(c))
    /\ LET sock == SocketSend(Socket(c), Head(outbox[c]))
       IN  /\ delivered' = [delivered EXCEPT ![c] = sock.sent]
           /\ buffered' = [buffered EXCEPT ![c] = sock.buffered]
    /\ outbox' = [outbox EXCEPT ![c] = Tail(@)]
    /\ UNCHANGED <<authVars, published, codecVars, routerVars, lockVars,
                   sharedVars, hookVars, toolVars, ctxVars>>

\* The consumer of connection c reads: one buffered event leaves the socket.
Drain(c) ==
    /\ conn[c].state = "AUTHENTICATED"
    /\ buffered[c] > 0
    /\ buffered' = [buffered EXCEPT ![c] = @ - 1]
    /\ UNCHANGED <<authVars, outbox, delivered, published, codecVars, routerVars,
                   lockVars, sharedVars, hookVars, toolVars, ctxVars>>

InitGateway == GatewayInit /\ CodecIdle /\ RouterIdle /\ LockIdle /\ RestIdle

SpecGateway == InitGateway /\ [][GatewayNext]_vars

\* The life cycle of the devices: pairing requests, approvals and
\* revocations by the operator, and the connects of the devices of the
\* store (a device that asked to be paired connects with a nonce of its own).
DeviceConnects(devs, t) ==
    {m \in ConnectMessages(t) \cup {SignedConnect(nd.id, <<"n4">>, t) : nd \in NewDevices} :
        m.deviceId \in DOMAIN devs}

DevicesNext ==
    \/ \E c \in ConnIds, m \in DeviceConnects(devices, now) : Handshake(c, m)
    \/ \E c \in ConnIds : Disconnect(c)
    \/ \E d \in RevokedDevices : Revoke(d)
    \/ \E d \in DOMAIN Credentials : Approve(d)
    \/ \E device \in NewDevices : Create(device)

InitDevices == GatewayInit /\ CodecIdle /\ RouterIdle /\ LockIdle /\ RestIdle

SpecDevices == InitDevices /\ [][DevicesNext]_vars

BusNext ==
    \/ \E c \in ConnIds, m \in ConnectMessages(now) : Handshake(c, m)
    \/ \E c \in ConnIds : Disconnect(c)
    \/ \E d \in RevokedDevices : Revoke(d)
    \/ \E e \in Events : Broadcast(e)
    \/ \E c \in ConnIds : Flush(c)
    \/ \E c \in ConnIds : Drain(c)

InitBus == BusInit /\ CodecIdle /\ RouterIdle /\ LockIdle /\ RestIdle

SpecBus == InitBus /\ [][BusNext]_vars

\* The bus on its own: every connection is opened by an approved device with
\* a nonce of its own, and events are broadcast while the consumers read at
\* their own pace.
MaxSends == 4

Sends == 1..MaxSends

FreshConnect(c, t) == SignedConnect(<<"d2">>, <<"n", ToString(c)>>, t)

EventsNext ==
    \/ \E c \in ConnIds : Handshake(c, FreshConnect(c, now))
    \/ \E c \in ConnIds : Disconnect(c)
    \/ \E e \in Sends : Broadcast(e)
    \/ \E c \in ConnIds : Flush(c)
    \/ \E c \in ConnIds : Drain(c)

InitEvents == BusInit /\ CodecIdle /\ RouterIdle /\ LockIdle /\ RestIdle

SpecEvents == InitEvents /\ [][EventsNext]_vars

-----------------------------------------------------------------------------
(* The heartbeat loop: the device sends heartbeat { sessionToken }, the     *)
(* gateway validates the token and replies with a new one.                  *)

\* The number of heartbeats a connection's token is refreshed on.
MaxHeartbeats == 1

\* The session tokens issued on connection c, superseded ones included: what
\* the device, or a thief who captured one, can present on it.
IssuedTokens(c) == {SessionToken(c, n) : n \in 1..MaxHeartbeats + 1}

\* The token presented on connection c is the one in force for it.
TokenValid(reg, tks, c, tk) ==
    c \in DOMAIN reg /\ reg[c].sessionToken = tk /\ tk \in tks

\* A refresh that leaves the previous token in force.
RefreshTokenKeepsOld(tks, old, new) == tks \cup {new}

\* Refresh: the new token replaces the previous one.
RefreshToken(tks, old, new) == (tks \ {old}) \cup {new}

\* Device->>GW: heartbeat { sessionToken }; GW->>Auth: validate & refresh
\* token; GW-->>Device: heartbeat.ok { sessionToken }.
Heartbeat(c, tk) ==
    /\ conn[c].state = "AUTHENTICATED"
    /\ tk[3] <= issued[c]
    /\ TokenValid(registry, tokens, c, tk) => issued[c] <= MaxHeartbeats
    /\ IF TokenValid(registry, tokens, c, tk)
       THEN LET new == SessionToken(c, issued[c] + 1) IN
            /\ tokens' = RefreshToken(tokens, tk, new)
            /\ issued' = [issued EXCEPT ![c] = @ + 1]
            /\ registry' = [registry EXCEPT ![c].sessionToken = new]
            /\ heartbeat' = [heartbeat EXCEPT ![c] =
                                Some([token |-> tk, code |-> "heartbeat.ok",
                                      reply |-> Some(new)])]
       ELSE /\ heartbeat' = [heartbeat EXCEPT ![c] =
                                Some([token |-> tk, code |-> "SESSION_TOKEN_EXPIRED",
                                      reply |-> None])]
            /\ UNCHANGED <<tokens, issued, registry>>
    /\ UNCHANGED <<conn, devices, nonces, now, revoke, audit, busVars,
                   codecVars, routerVars, lockVars, sharedVars, hookVars, toolVars,
                   ctxVars>>

HeartbeatNext ==
    \/ \E c \in ConnIds, m \in ConnectMessages(now) : Handshake(c, m)
    \/ \E c \in ConnIds : Disconnect(c)
    \/ \E c \in ConnIds, n \in 1..MaxHeartbeats + 1 : Heartbeat(c, SessionToken(c, n))
    \/ \E d \in RevokedDevices : Revoke(d)

InitHeartbeat == GatewayInit /\ CodecIdle /\ RouterIdle /\ LockIdle /\ RestIdle

SpecHeartbeat == InitHeartbeat /\ [][HeartbeatNext]_vars


-----------------------------------------------------------------------------
(* Properties of the handshake, read off the audit entries of the connects  *)
(* handled (one each, in order).                                            *)

Handled == {j \in 1..Len(audit) : "code" \in DOMAIN audit[j]}

\* The connect carries the signature its device computes for it.
SignatureVerifies(m) ==
    m.authToken = HmacSha256Hex(Credentials[m.deviceId].sharedSecret,
                                m.deviceId \o m.nonce \o <<ToString(m.timestamp)>>)

SameDeviceAndNonce(a, b) == a.msg.deviceId = b.msg.deviceId /\ a.msg.nonce = b.msg.nonce

\* The handshake of entry a recorded its nonce.
Recorded(a) == a.code \in {"connect_ok", "DEVICE_NOT_APPROVED"}

\* C11: a handshake repeating a (deviceId, nonce) that an earlier handshake
\* recorded less than the window ago is never accepted, and when its
\* signature verifies (a verbatim replay of a captured handshake does) it is
\* rejected with NONCE_REUSED; so at most one of the two is accepted.
C11_NonceReuseRejected ==
    \A i, j \in Handled :
        (/\ i < j
         /\ Recorded(audit[i])
         /\ SameDeviceAndNonce(audit[i], audit[j])
         /\ audit[j].at - audit[i].at < NonceWindow)
        => /\ audit[j].code # "connect_ok"
           /\ SignatureVerifies(audit[j].msg) => audit[j].code = "NONCE_REUSED"

\* A valid handshake was accepted and its verbatim replay rejected.
C11_Witness ==
    \E i, j \in Handled :
        /\ i < j
        /\ audit[i].msg = audit[j].msg
        /\ audit[i].code = "connect_ok"
        /\ audit[j].code = "NONCE_REUSED"

Abs(x) == IF x < 0 THEN -x ELSE x

\* C12: no handshake is accepted whose timestamp is further than the window
\* from the server time at which it is handled.
C12_StaleTimestampRejected ==
    \A i \in Handled :
        audit[i].code = "connect_ok" =>
            Abs(audit[i].at - audit[i].msg.timestamp) <= NonceWindow

\* C13: a connection becomes AUTHENTICATED only on a handshake that passed
\* the signature, nonce, timestamp-skew and approval checks, and then holds
\* a session token; a handshake that fails closes the connection; a CLOSED
\* connection stays CLOSED.
C13_AuthenticatedOnlyIfAllPassed ==
    [][\A c \in ConnIds :
          /\ (conn[c].state # "AUTHENTICATED" /\ conn'[c].state = "AUTHENTICATED") =>
                LET m == conn'[c].msg.v
                IN  /\ conn[c].state = "AWAITING_HANDSHAKE"
                    /\ SignatureVerifies(m)
                    /\ ~(m.nonce \in DOMAIN nonces /\ now < nonces[m.nonce].expiresAt)
                    /\ Abs(now - m.timestamp) <= NonceWindow
                    /\ devices[m.deviceId].approved
                    /\ c \in DOMAIN registry'
                    /\ registry'[c].sessionToken \in tokens'
          /\ (conn[c].state = "AWAITING_HANDSHAKE" /\ conn'[c].state # "AWAITING_HANDSHAKE") =>
                conn'[c].state \in {"AUTHENTICATED", "CLOSED"}
          /\ conn[c].state = "CLOSED" => conn'[c].state = "CLOSED"]_vars


\* The open (authenticated) connections of device d.
OpenFor(d) ==
    {c \in ConnIds : conn[c].state = "AUTHENTICATED" /\ conn[c].msg.v.deviceId = d}

\* C14: the disconnectDevice call of a revoke closes and unregisters every
\* open connection of the device at once and returns their number, leaving
\* every other connection as it was; and an event is only ever delivered to
\* an open connection, never to one of a device whose connections
\* disconnectDevice has closed.
C14_DisconnectDeviceAtomic ==
    [][/\ \A d \in RevokedDevices :
            (revoke[d].stage = "none" /\ revoke'[d].stage = "done") =>
                /\ revoke'[d].count = Cardinality(OpenFor(d))
                /\ \A c \in OpenFor(d) :
                      conn'[c].state = "CLOSED" /\ c \notin DOMAIN registry'
                /\ \A c \in ConnIds \ OpenFor(d) :
                      /\ conn'[c] = conn[c]
                      /\ outbox'[c] = outbox[c]
                      /\ c \in DOMAIN registry' <=> c \in DOMAIN registry
       /\ \A c \in ConnIds :
            delivered'[c] # delivered[c] =>
                /\ conn[c].state = "AUTHENTICATED"
                /\ \A d \in RevokedDevices :
                      revoke[d].stage = "done" =>
                          conn[c].msg.v.deviceId # d]_vars

\* disconnectDevice closed two connections, one of which had been delivered
\* an event and the other none.
C14_Witness ==
    \E d \in RevokedDevices : \E a, b \in ConnIds :
        /\ a # b
        /\ revoke[d].stage = "done" /\ revoke[d].count = 2
        /\ conn[a].state = "CLOSED" /\ conn[a].msg.v.deviceId = d /\ delivered[a] # <<>>
        /\ conn[b].state = "CLOSED" /\ conn[b].msg.v.deviceId = d /\ delivered[b] = <<>>
        /\ published >= 1

\* No earlier handshake recorded the nonce of entry j within the window.
FreshAt(j) ==
    \A i \in Handled :
        (i < j /\ Recorded(audit[i]) /\ audit[i].msg.nonce = audit[j].msg.nonce)
            => audit[j].at - audit[i].at >= NonceWindow

\* device.revoke completed for the device of entry j before the connect of
\* entry j was handled.
RevokedBefore(j) ==
    \E i \in 1..(j - 1) :
        audit[i].type = "device.revoked" /\ audit[i].deviceId = audit[j].msg.deviceId

\* C15 as stated: every handshake handled after device.revoke for its device
\* completed fails (with DEVICE_NOT_APPROVED when it is otherwise valid), and
\* the device never again has an AUTHENTICATED connection.
C15_EverySubsequentHandshakeFails ==
    /\ \A j \in Handled :
          RevokedBefore(j) =>
              /\ audit[j].code # "connect_ok"
              /\ (/\ ConnectSchemaOk(audit[j].msg)
                  /\ SignatureVerifies(audit[j].msg)
                  /\ FreshAt(j)) => audit[j].code = "DEVICE_NOT_APPROVED"
    /\ \A d \in RevokedDevices : revoke[d].stage # "none" => OpenFor(d) = {}

\* C15: until the operator approves the device again, a handshake handled
\* after device.revoke for its device completed is never accepted, and is
\* answered DEVICE_NOT_APPROVED when it is one the device would have been
\* accepted with (well-formed, signature verifies, nonce fresh); and while
\* the revocation stands the device has no AUTHENTICATED connection.
C15_RevokedDeviceNeverAuthenticates ==
    /\ \A j \in Handled :
          audit[j].msg.deviceId \in audit[j].revoked =>
              /\ RevokedBefore(j)
              /\ audit[j].code # "connect_ok"
              /\ (/\ ConnectSchemaOk(audit[j].msg)
                  /\ SignatureVerifies(audit[j].msg)
                  /\ FreshAt(j)) => audit[j].code = "DEVICE_NOT_APPROVED"
    /\ \A d \in RevokedDevices : revoke[d].stage = "done" => OpenFor(d) = {}

\* A connection of the device was open when the revoke ran and was closed by
\* it; a connection opened before the revoke sent its connect after it.
C15_Witness ==
    \E i, j \in Handled :
        /\ i < j
        /\ audit[i].msg.deviceId \in RevokedDevices
        /\ audit[i].code = "connect_ok" /\ audit[i].revoked = {}
        /\ revoke[audit[i].msg.deviceId].count = 1
        /\ audit[j].msg.deviceId = audit[i].msg.deviceId
        /\ audit[j].msg.deviceId \in audit[j].revoked
        /\ audit[j].code = "DEVICE_NOT_APPROVED"


-----------------------------------------------------------------------------
(* Properties of the session lock and of the run life cycle.                *)

\* The first run may stall for ever wherever it is, its session's lock
\* included; every other run keeps being scheduled.
StalledSpecLock == SpecLock /\ \A r \in Runs \ {1} : WF_vars(LoopStep(r))

\* C16: an acquire waits only for an unreleased earlier acquire of its own
\* key; and while the first run stalls (holding its session's lock for ever),
\* an acquire for any other key still returns.
C16_OtherKeysNeverBlock ==
    /\ [](\A r \in Runs :
            (run[r].phase = "acquiring"
                /\ ~IsResolved(AwaitedPromise(run[r].existing, run[r].next))) =>
                \E q \in Runs :
                    /\ q # r /\ run[q].key = run[r].key
                    /\ run[q].next = run[r].existing /\ run[q].releases = 0)
    /\ \A r \in Runs \ {1} :
          (run[r].phase = "acquiring" /\ run[r].key # run[1].key)
              ~> (run[r].phase # "acquiring")

\* Two sessions of one agent inside their loops at the same time.
C16_Witness ==
    \E a, b \in Runs :
        /\ a < b /\ run[a].key # run[b].key
        /\ Holding(a) /\ run[a].releases = 0
        /\ Holding(b)
        /\ run[a].key[1] = run[b].key[1]

\* C18: a run's status changes only from running to completed, cancelled or
\* error (after being set to running when the run starts) and then never
\* again; a loop that has ended has a terminal status.
C18_TerminalStatusFinal ==
    [][\A r \in Runs :
          /\ run[r].status # run'[r].status =>
                \/ run[r].status = "none" /\ run'[r].status = "running"
                \/ run[r].status = "running" /\ run'[r].status \in TerminalStatuses
          /\ run'[r].phase \in TerminalPhases => run'[r].status \in TerminalStatuses]_vars

\* agent.cancel arrived while the loop was about to complete: the loop
\* completed, the run stays cancelled.
C18_Witness ==
    \E r \in Runs :
        /\ r \in cancelReq
        /\ run[r].phase = "COMPLETE" /\ run[r].status = "cancelled"

\* C19: agent.cancel does not preempt the loop; once the run is cancelled the
\* loop enters no further model call and no further tool dispatch, a tool call
\* in flight returns and the loop ends without using its result; and the loop
\* does end, with the lock released once and the run cancelled.
C19_CancelStopsAtCheckpoint ==
    /\ [][\A r \in Runs :
            /\ (r \notin cancelReq /\ r \in cancelReq') =>
                  /\ run'[r].phase = run[r].phase
                  /\ run'[r].releases = run[r].releases
            /\ (run[r].status = "cancelled" /\ run'[r].phase # run[r].phase) =>
                  run'[r].phase \notin {"MODEL_CALL", "TOOL_DISPATCH"}
            /\ (run[r].status = "cancelled" /\ run[r].phase = "TOOL_DISPATCH"
                    /\ run'[r].phase # "TOOL_DISPATCH") =>
                  run'[r].phase \in {"CANCELLED", "ERROR"}]_vars
    /\ \A r \in Runs :
          (run[r].status = "cancelled") ~>
              (/\ run[r].phase \in TerminalPhases
               /\ run[r].releases = 1 /\ IsResolved(run[r].next)
               /\ run[r].status = "cancelled")

\* A run cancelled with a tool call in flight: the call returned, the loop
\* stopped there.
C19_Witness ==
    \E r \in Runs :
        /\ run[r].phase = "CANCELLED" /\ run[r].cause = "cancel_tool_discarded"
        /\ run[r].status = "cancelled" /\ run[r].releases = 1

\* C20: the loop never exceeds the iteration limit, a failure of the adapter
\* or of the transcript write ends it in ERROR, and every started run
\* eventually has ended with a terminal status.
C20_EveryRunTerminates ==
    /\ [](\A r \in Runs :
            /\ run[r].iter <= MaxIterations
            /\ run[r].cause \in {"error", "timeout", "max_iterations"} =>
                  run[r].phase = "ERROR" /\ run[r].status \in {"error", "cancelled"})
    /\ \A r \in Runs :
          (run[r].status # "none") ~>
              (run[r].phase \in TerminalPhases /\ run[r].status \in TerminalStatuses)

\* One run was stopped by the iteration limit, another by a failure.
C20_Witness ==
    \E a, b \in Runs :
        /\ a # b
        /\ run[a].cause = "max_iterations" /\ run[a].status = "error"
        /\ run[a].iter = MaxIterations
        /\ run[b].cause = "error" /\ run[b].status = "error"


-----------------------------------------------------------------------------
(* The idempotency store as a table keyed by its primary key.               *)

\* C17: the store holds one record per namespaced key (it is keyed by the
\* namespaced key), no step removes or changes a record it holds, and a
\* request whose result is written for a key is answered with the result the
\* store holds for that key, the first one written.
C17_FirstRecordWins ==
    [][/\ \A k \in DOMAIN records :
            k \in DOMAIN records' /\ records'[k] = records[k]
       /\ \A r \in Slots :
            (pc[r] = "executing" /\ pc'[r] = "done"
                /\ \E i \in DOMAIN trace'[r] : trace'[r][i] = "cache") =>
                /\ NKey(r) \in DOMAIN records'
                /\ resp'[r].v = OkResponse(records'[NKey(r)].result)]_vars


-----------------------------------------------------------------------------
(* Properties of the heartbeat loop.                                        *)

\* The step is a heartbeat on connection c that the gateway accepted.
HeartbeatAccepted(c) ==
    conn[c].state = "AUTHENTICATED" /\ issued'[c] # issued[c]

\* C25: a successful heartbeat issues a token never issued before and takes
\* the previous one out of force, so a connection has at most one token in
\* force, the last one issued on it, and a heartbeat is accepted only on
\* that token: a superseded token is never accepted again.
C25_HeartbeatRotatesToken ==
    /\ [](\A c \in ConnIds : Cardinality({tk \in tokens : tk[2] = c}) <= 1)
    /\ [](\A tk \in tokens : tk[3] = issued[tk[2]])
    /\ [][\A c \in ConnIds : HeartbeatAccepted(c) =>
             LET old == registry[c].sessionToken
                 new == registry'[c].sessionToken
             IN  /\ heartbeat'[c] = Some([token |-> old, code |-> "heartbeat.ok",
                                          reply |-> Some(new)])
                 /\ old \in tokens /\ old \notin tokens'
                 /\ new \in tokens' /\ new # old /\ new[3] > issued[c]]_vars

\* A superseded token of a connection was presented on it and refused.
C25_Witness ==
    \E c \in ConnIds :
        /\ heartbeat[c].some
        /\ heartbeat[c].v.code = "SESSION_TOKEN_EXPIRED"
        /\ heartbeat[c].v.token[2] = c
        /\ heartbeat[c].v.token[3] < issued[c]
        /\ conn[c].state = "AUTHENTICATED"


-----------------------------------------------------------------------------
(* protocol/envelopes.ts: ResponseEnvelopeSchema and EventEnvelopeSchema,   *)
(* and protocol/handshake.ts: ProtocolErrorSchema.  A JSON value whose      *)
(* content does not matter is named by its kind: "{}" an object, "null".    *)

\* z.record(z.string(), z.unknown())
RecordOk(v) == v = "{}"

\* ProtocolErrorSchema: code z.number().int(), message z.string(),
\* retryable z.boolean()
ProtocolErrorIssues(e) ==
    (IF e.code.some THEN <<>> ELSE <<Issue(<<"error", "code">>, "invalid_type")>>)
    \o (IF e.message.some THEN <<>> ELSE <<Issue(<<"error", "message">>, "invalid_type")>>)
    \o (IF e.retryable.some THEN <<>>
        ELSE <<Issue(<<"error", "retryable">>, "invalid_type")>>)

\* result: z.record(z.string(), z.unknown()).optional()
ResultIssues(r) ==
    IF ~r.result.some \/ RecordOk(r.result.v)
    THEN <<>> ELSE <<Issue(<<"result">>, "invalid_type")>>

\* error: ProtocolErrorSchema.optional()
ErrorIssues(r) == IF ~r.error.some THEN <<>> ELSE ProtocolErrorIssues(r.error.v)

\* ResponseEnvelopeSchema.safeParse(raw)
ResponseSchemaIssues(r) ==
    IF ~r.object THEN <<Issue(<<>>, "invalid_type")>>
    ELSE VersionIssues(r) \o IdIssues(r) \o ResultIssues(r) \o ErrorIssues(r)

ResponseEnvelopeSchema(r) ==
    IF ResponseSchemaIssues(r) # <<>>
    THEN [success |-> FALSE, issues |-> ResponseSchemaIssues(r)]
    ELSE [success |-> TRUE,
          data |-> [version |-> r.version.v, id |-> r.id.v,
                    result |-> r.result, error |-> r.error]]

\* event: NonEmptyString
EventIssues(r) ==
    IF r.event.some /\ NonEmptyStringOk(r.event.v)
    THEN <<>> ELSE <<Issue(<<"event">>, IF r.event.some THEN "too_small"
                                                       ELSE "invalid_type")>>

\* EventEnvelopeSchema.safeParse(raw); data is z.unknown() and never fails
EventSchemaIssues(r) ==
    IF ~r.object THEN <<Issue(<<>>, "invalid_type")>>
    ELSE VersionIssues(r) \o EventIssues(r) \o TsIssues(r)

EventEnvelopeSchema(r) ==
    IF EventSchemaIssues(r) # <<>>
    THEN [success |-> FALSE, issues |-> EventSchemaIssues(r)]
    ELSE [success |-> TRUE,
          data |-> [version |-> r.version.v, event |-> Trim(r.event.v),
                    data |-> r.data, ts |-> r.ts.v]]

\* RequestEnvelopeSchema.safeParse(raw)
RequestEnvelopeSchema(r) ==
    IF SchemaIssues(r) # <<>>
    THEN [success |-> FALSE, issues |-> SchemaIssues(r)]
    ELSE [success |-> TRUE, data |-> SchemaData(r)]

\* The versions an envelope is sent with: none, the supported one, others.
RawVersions == {None, Some("1.0"), Some("2.0"), Some("1")}

RawErrors ==
    {None} \cup
    {Some(e) : e \in [code : {None, Some(1)}, message : {Some("m")},
                      retryable : {None, Some(TRUE)}]}

RawResponses ==
    {[object |-> FALSE, version |-> None, id |-> None, result |-> None,
      error |-> None]} \cup
    [object  : {TRUE},
     version : RawVersions,
     id      : {None, Some(<<>>), Some(<<"r1">>)},
     result  : {None, Some("{}"), Some("null")},
     error   : RawErrors]

RawEvents ==
    {[object |-> FALSE, version |-> None, event |-> None, data |-> None,
      ts |-> None]} \cup
    [object  : {TRUE},
     version : RawVersions,
     event   : {None, Some(<<" ">>), Some(<<"e1">>)},
     data    : {None, Some("{}")},
     ts      : {None, Some(0), Some(1)}]

RawRequests ==
    {v \in RawValues : ~v.object \/ ~v.idempotencyKey.some} \cup
    {[WellFormed("status.get", None) EXCEPT !.version = ver] : ver \in RawVersions}


-----------------------------------------------------------------------------
(* packages/shared/src/index.ts: PermissionPolicy and isPermitted.          *)

\* The length of the capability lists (allow, deny, requested).
MaxCaps == 2

\* Two of the nine values of Capability.
Capabilities == {"fs.read", "shell.exec"}

CapabilityLists == UNION {[1..k -> Capabilities] : k \in 0..MaxCaps}

\* Array.prototype.includes
Includes(list, x) == \E i \in 1..Len(list) : list[i] = x

\* A loop body in which the allow list takes precedence over the deny list.
RejectsAllowFirst(policy, cap) ==
    IF policy.allow.some
    THEN ~Includes(policy.allow.v, cap)
    ELSE policy.deny.some /\ Includes(policy.deny.v, cap)

\* The body of the loop: the two conditions under which it returns false.
Rejects(policy, cap) ==
    IF policy.deny.some /\ Includes(policy.deny.v, cap) THEN TRUE
    ELSE policy.allow.some /\ ~Includes(policy.allow.v, cap)

\* for (const cap of capabilities) { ... return false } return true
RECURSIVE PermittedFrom(_, _, _)
PermittedFrom(policy, capabilities, i) ==
    IF i > Len(capabilities) THEN TRUE
    ELSE IF Rejects(policy, capabilities[i]) THEN FALSE
    ELSE PermittedFrom(policy, capabilities, i + 1)

isPermitted(policy, capabilities) == PermittedFrom(policy, capabilities, 1)

Policies ==
    [allow : {None} \cup {Some(l) : l \in CapabilityLists},
     deny  : {None} \cup {Some(l) : l \in CapabilityLists}]

-----------------------------------------------------------------------------
(* The binding router: Binding and BindingRouter.resolve.                   *)

\* The number of bindings in the table.
MaxBindings == 2

DefaultAgent == <<"default">>

\* What a binding may say: a channel or any, a sender or any, a priority.
BindingShapes ==
    [channelId : {None, Some("chat42")}, senderId : {None, Some("alice")},
     priority : {1, 5}]

\* The i-th binding created: bindings are listed in order of creation, each
\* routes to an agent of its own.
Binding(shape, i) ==
    [id |-> i, agentId |-> <<"agent", i>>, provider |-> "telegram",
     channelId |-> shape.channelId, senderId |-> shape.senderId,
     priority |-> shape.priority, createdAt |-> i]

\* UNIQUE(provider, channel_id, sender_id): no two rows agree on the three
\* columns (rows with a NULL column never count as equal).
UniqueRows(bs) ==
    \A i, j \in DOMAIN bs :
        (i # j /\ bs[i].channelId.some /\ bs[i].senderId.some) =>
            ~(/\ bs[i].provider = bs[j].provider
              /\ bs[i].channelId = bs[j].channelId
              /\ bs[i].senderId = bs[j].senderId)

BindingTables ==
    {bs \in UNION {{[i \in 1..k |-> Binding(f[i], i)] : f \in [1..k -> BindingShapes]} :
                      k \in 0..MaxBindings} : UniqueRows(bs)}

\* The inbound messages: telegram messages of two channels and two senders,
\* and a message of another provider.
Inbound ==
    [provider : {"telegram"}, channelId : {Some("chat42"), Some("chat99")},
     senderId : {Some("alice"), Some("bob")}]
    \cup {[provider |-> "slack", channelId |-> Some("chat42"),
            senderId |-> Some("alice")]}

\* The binding applies to the inbound message.
BindingMatches(b, params) ==
    /\ b.provider = params.provider
    /\ b.channelId.some => b.channelId = params.channelId
    /\ b.senderId.some => b.senderId = params.senderId

\* channel+sender > channel > sender > neither
Specificity(b) ==
    IF b.channelId.some /\ b.senderId.some THEN 3
    ELSE IF b.channelId.some THEN 2
    ELSE IF b.senderId.some THEN 1
    ELSE 0

\* An order that checks bindings by priority before specificity.
OutranksPriorityFirst(a, b) ==
    \/ a.priority > b.priority
    \/ a.priority = b.priority /\ Specificity(a) > Specificity(b)
    \/ a.priority = b.priority /\ Specificity(a) = Specificity(b)
          /\ a.createdAt > b.createdAt

\* Most specific first; ties by highest priority, then most recently created.
Outranks(a, b) ==
    \/ Specificity(a) > Specificity(b)
    \/ Specificity(a) = Specificity(b) /\ a.priority > b.priority
    \/ Specificity(a) = Specificity(b) /\ a.priority = b.priority
          /\ a.createdAt > b.createdAt

\* BindingRouter.resolve(params): the agent of the winning binding, or the
\* default agent when no binding matches.
resolve(bindings, params) ==
    LET matching == {i \in DOMAIN bindings : BindingMatches(bindings[i], params)}
    IN  IF matching = {} THEN DefaultAgent
        ELSE bindings[CHOOSE i \in matching :
                        \A j \in matching \ {i} : Outranks(bindings[i], bindings[j])].agentId

-----------------------------------------------------------------------------
(* Node host: exec approval.  A command is a string; an argument, a glob    *)
(* pattern and a working directory are the sequences of their characters.   *)

\* The number of patterns in an allow or a deny list.
MaxPatterns == 2

\* String.prototype.startsWith
startsWith(str, prefix) ==
    Len(prefix) <= Len(str) /\ SubSeq(str, 1, Len(prefix)) = prefix

\* JavaScript truthiness of an optional string: undefined and "" are falsy.
Truthy(opt) == opt.some /\ opt.v # <<>>

\* A glob pattern against a string, character by character: "*" stands for
\* any run of characters, every other character for itself.
RECURSIVE GlobMatch(_, _)
GlobMatch(glob, str) ==
    IF glob = <<>> THEN str = <<>>
    ELSE IF Head(glob) = "*"
         THEN GlobMatch(Tail(glob), str) \/ (str # <<>> /\ GlobMatch(glob, Tail(str)))
         ELSE str # <<>> /\ Head(str) = Head(glob) /\ GlobMatch(Tail(glob), Tail(str))

\* matchesPattern(command, args, pattern): the command is the pattern's, and
\* every argument matches one of the glob patterns the pattern lists, when
\* it lists arguments.
matchesPattern(command, args, pattern) ==
    /\ pattern.command = command
    /\ pattern.args.some =>
          \A i \in DOMAIN args :
              \E j \in DOMAIN pattern.args.v : GlobMatch(pattern.args.v[j], args[i])

\* The first element of `list`, from index i on, that the request matches
\* (0 if there is none).
RECURSIVE FirstMatch(_, _, _, _)
FirstMatch(command, args, list, i) ==
    IF i > Len(list) THEN 0
    ELSE IF matchesPattern(command, args, list[i]) THEN i
    ELSE FirstMatch(command, args, list, i + 1)

validateCommand(command, args, cwd, config) ==
    LET d == FirstMatch(command, args, config.deny, 1)
        a == FirstMatch(command, args, config.allow, 1)
    IN  IF d # 0
        THEN [allowed |-> FALSE, reason |-> <<"Denied by pattern: ", config.deny[d].command>>]
        ELSE IF a = 0
        THEN [allowed |-> FALSE, reason |-> <<"No matching allow pattern">>]
        ELSE IF /\ Truthy(config.allow[a].cwd) /\ Truthy(cwd)
                /\ ~startsWith(cwd.v, config.allow[a].cwd.v)
        THEN [allowed |-> FALSE, reason |-> <<"cwd not allowed: ", cwd.v>>]
        ELSE [allowed |-> TRUE, reason |-> <<"Allowed by pattern: ", config.allow[a].command>>]

\* The strings of the patterns and of the requests.
ArgStatus == <<"s", "t", "a", "t", "u", "s">>

ArgStash == <<"s", "t", "a", "s", "h">>

ArgPush == <<"p", "u", "s", "h">>

GlobStStar == <<"s", "t", "*">>

DirSrv == <<"/", "s", "r", "v">>

DirSrvApp == <<"/", "s", "r", "v", "/", "a", "p", "p">>

DirSrvx == <<"/", "s", "r", "v", "x">>

DirTmp == <<"/", "t", "m", "p">>

\* exec-approval.json: allow patterns with and without arguments (a literal
\* one, "status", and a glob, "st*") and a working directory, deny patterns
\* with and without arguments.
AllowPatterns ==
    {[command |-> "git", args |-> a, cwd |-> d] :
        a \in {None, Some(<<ArgStatus>>), Some(<<GlobStStar>>)},
        d \in {None, Some(DirSrv)}}

DenyPatterns ==
    {[command |-> "rm", args |-> None], [command |-> "git", args |-> Some(<<ArgPush>>)]}

ListsOf(S, n) == UNION {[1..k -> S] : k \in 0..n}

\* The params objects the method schemas are driven with: the required
\* fields of a method, alone and with one optional field of the right or of
\* a wrong type or range, and objects that lack a required field.
ParamsFields ==
    {<<"metadata", Obj(<<>>)>>, <<"metadata", Str(<<"x">>)>>, <<"metadata", Arr(<<>>)>>,
     <<"args", Arr(<<Str(<<"a">>)>>)>>, <<"args", Arr(<<Num(1)>>)>>, <<"args", Str(<<"x">>)>>,
     <<"timeout", Num(5)>>, <<"timeout", Num(0)>>, <<"timeout", NumAndAHalf(1)>>,
     <<"timeout", Str(<<"5">>)>>,
     <<"approved", Bool(TRUE)>>, <<"approved", Str(<<"yes">>)>>, <<"approved", Null>>,
     <<"reason", Str(<<>>)>>, <<"reason", Num(1)>>, <<"input", Null>>,
     <<"sessionId", Str(<<>>)>>, <<"sessionId", Num(1)>>, <<"agentId", Str(<<" ">>)>>}

RequiredFields ==
    {<<<<"deviceId", Str(<<"d1">>)>>>>,
     <<<<"sessionId", Str(<<"s1">>)>>, <<"content", Str(<<"hi">>)>>>>,
     <<<<"sessionId", Str(<<"s1">>)>>, <<"agentId", Str(<<"a1">>)>>>>,
     <<<<"runId", Str(<<"r1">>)>>>>,
     <<<<"nodeId", Str(<<"n1">>)>>, <<"command", Str(<<"ls">>)>>>>,
     <<<<"execId", Str(<<"e1">>)>>>>,
     <<<<"pluginId", Str(<<"p1">>)>>>>}

\* A later entry of the same name replaces an earlier one.
WithField(p, f) == SelectSeq(p, LAMBDA e : e[1] # f[1]) \o <<f>>

ParamsObjects ==
    {EmptyParams} \cup RequiredFields
        \cup {WithField(p, f) : p \in RequiredFields, f \in ParamsFields}

\* deny defaults to the empty list.
ExecApprovalConfigs ==
    {[allow |-> a, deny |-> d] :
        a \in ListsOf(AllowPatterns, MaxPatterns), d \in ListsOf(DenyPatterns, 1)}

\* The exec requests: command, args and an optional working directory.
ExecRequests ==
    {[command |-> c, args |-> a, cwd |-> d] :
        c \in {"git", "rm"},
        a \in {<<>>, <<ArgStatus>>, <<ArgStash>>, <<ArgPush>>},
        d \in {None, Some(<<>>), Some(DirSrvApp), Some(DirSrvx), Some(DirTmp)}}

\* The (deviceId, method, clientKey) triples keys are built from; a device
\* id and a client key are any non-empty strings, given as the sequence of
\* their parts.
KeyTriples ==
    {<<d, m, k>> :
        d \in {<<"d1">>, <<"d1", ":", "message.send">>},
        m \in {"message.send", "agent.run"},
        k \in {<<"k1">>, <<"agent.run", ":", "k1">>}}

-----------------------------------------------------------------------------
(* The schemas and pure functions on their own: one call, made once.        *)

SharedCalls ==
    {[fn |-> "RequestEnvelopeSchema", raw |-> r] : r \in RawRequests}
    \cup {[fn |-> "ResponseEnvelopeSchema", raw |-> r] : r \in RawResponses}
    \cup {[fn |-> "EventEnvelopeSchema", raw |-> r] : r \in RawEvents}
    \cup {[fn |-> "isPermitted", policy |-> p, capabilities |-> c] :
             p \in Policies, c \in CapabilityLists}
    \cup {[fn |-> "resolve", bindings |-> bs, params |-> i] :
             bs \in BindingTables, i \in Inbound}
    \cup {[fn |-> "validateCommand", request |-> r, config |-> c] :
             r \in ExecRequests, c \in ExecApprovalConfigs}
    \cup {[fn |-> "buildIdempotencyKey", a |-> a, b |-> b] :
             a \in KeyTriples, b \in KeyTriples}
    \cup {[fn |-> "MethodSchemas", method |-> m, params |-> p] :
             m \in RPC_METHODS, p \in ParamsObjects}

SharedInit == arg \in {Some(c) : c \in SharedCalls} /\ ret = None

Calls(fn) == arg.some /\ arg.v.fn = fn /\ ret = None

ParseRequest ==
    /\ Calls("RequestEnvelopeSchema")
    /\ ret' = Some(RequestEnvelopeSchema(arg.v.raw))
    /\ UNCHANGED <<arg, codecVars, routerVars, lockVars, authVars, busVars,
                   hookVars, toolVars, ctxVars>>

ParseResponse ==
    /\ Calls("ResponseEnvelopeSchema")
    /\ ret' = Some(ResponseEnvelopeSchema(arg.v.raw))
    /\ UNCHANGED <<arg, codecVars, routerVars, lockVars, authVars, busVars,
                   hookVars, toolVars, ctxVars>>

ParseEvent ==
    /\ Calls("EventEnvelopeSchema")
    /\ ret' = Some(EventEnvelopeSchema(arg.v.raw))
    /\ UNCHANGED <<arg, codecVars, routerVars, lockVars, authVars, busVars,
                   hookVars, toolVars, ctxVars>>

CheckPermitted ==
    /\ Calls("isPermitted")
    /\ ret' = Some(isPermitted(arg.v.policy, arg.v.capabilities))
    /\ UNCHANGED <<arg, codecVars, routerVars, lockVars, authVars, busVars,
                   hookVars, toolVars, ctxVars>>

Resolve ==
    /\ Calls("resolve")
    /\ ret' = Some(resolve(arg.v.bindings, arg.v.params))
    /\ UNCHANGED <<arg, codecVars, routerVars, lockVars, authVars, busVars,
                   hookVars, toolVars, ctxVars>>

\* handleExecRequest, step 1: validate against the exec-approval config.
ValidateCommand ==
    /\ Calls("validateCommand")
    /\ ret' = Some(validateCommand(arg.v.request.command, arg.v.request.args,
                                   arg.v.request.cwd, arg.v.config))
    /\ UNCHANGED <<arg, codecVars, routerVars, lockVars, authVars, busVars,
                   hookVars, toolVars, ctxVars>>

\* The namespaced keys of two requests are built.
BuildKeys ==
    /\ Calls("buildIdempotencyKey")
    /\ ret' = Some(<<buildIdempotencyKey(arg.v.a[1], arg.v.a[2], arg.v.a[3]),
                     buildIdempotencyKey(arg.v.b[1], arg.v.b[2], arg.v.b[3])>>)
    /\ UNCHANGED <<arg, codecVars, routerVars, lockVars, authVars, busVars,
                   hookVars, toolVars, ctxVars>>

\* MethodSchemas[method].params.safeParse(params)
ParseParams ==
    /\ Calls("MethodSchemas")
    /\ ret' = Some(MethodParamsOk(arg.v.method, arg.v.params))
    /\ UNCHANGED <<arg, codecVars, routerVars, lockVars, authVars, busVars,
                   hookVars, toolVars, ctxVars>>

SharedNext ==
    \/ ParseParams
    \/ ParseRequest
    \/ ParseResponse
    \/ ParseEvent
    \/ CheckPermitted
    \/ Resolve
    \/ ValidateCommand
    \/ BuildKeys

InitShared ==
    /\ SharedInit /\ CodecIdle /\ RouterIdle /\ LockIdle /\ GatewayIdle
    /\ HookIdle /\ ToolIdle /\ ContextIdle

SpecShared == InitShared /\ [][SharedNext]_vars


-----------------------------------------------------------------------------------------------------------------------------------------------------
(* The hook manager: HookManager.register and HookManager.execute.  A       *)
(* handler transforms the data it is given by appending its own name, so    *)
(* the data records who transformed it and in what order.                   *)

\* The number of register calls made in all.
MaxHandlers == 3

\* The number of execute calls made in all.
MaxExecutes == 2

\* Three of the five hook points: one open, the two privileged ones.
HookNames == {"onIntake", "onContextAssembled", "onModelResponse"}

PRIVILEGED_HOOKS == {"onContextAssembled", "onModelResponse"}

\* The plugins that register handlers: a built-in one, one granted the
\* privileged_hooks permission, and one with neither.
Plugins ==
    {[pluginName |-> "builtin",   isBuiltIn |-> TRUE,  hasPrivilegedPermission |-> FALSE],
     [pluginName |-> "granted",   isBuiltIn |-> FALSE, hasPrivilegedPermission |-> TRUE],
     [pluginName |-> "untrusted", isBuiltIn |-> FALSE, hasPrivilegedPermission |-> FALSE]}

\* interface HookRegistration; the handler is named after its plugin
HookRegistration(hookName, plugin) ==
    [hookName |-> hookName, handler |-> plugin.pluginName,
     pluginName |-> plugin.pluginName, isBuiltIn |-> plugin.isBuiltIn,
     hasPrivilegedPermission |-> plugin.hasPrivilegedPermission]

\* handler(context, data), when it resolves
Transform(handler, data) == Append(data, handler)

\* The data execute is called with.
HookInput == <<"x">>

\* How a handler invocation ends: the call throws (nothing is awaited), or
\* it returns a promise that resolves, rejects, or is still pending when
\* withTimeout gives up.
Outcomes == {"returns", "throws", "rejects", "timeout"}

\* How an awaited handler ends.
AwaitedOutcomes == Outcomes \ {"throws"}

\* A trust check that lets every registration through.
RegistrationRejectedNever(registration) == FALSE

\* register: the trust tier check for privileged hooks
RegistrationRejected(registration) ==
    /\ registration.hookName \in PRIVILEGED_HOOKS
    /\ ~registration.isBuiltIn
    /\ ~registration.hasPrivilegedPermission

\* handler(context, result): the handler is given the running result
HandlerInput(result, original) == result

\* catch (err) { }: the running result is left as it was
AfterFailure(result, original) == result

\* result = await withTimeout(...), or the catch block.
Settled(result, original, handler, outcome) ==
    IF outcome = "returns"
    THEN Transform(handler, HandlerInput(result, original))
    ELSE AfterFailure(result, original)

\* this.hooks.get(hookName) ?? []
Handlers(hs, hookName) == IF hookName \in DOMAIN hs THEN hs[hookName] ELSE <<>>

\* The handlers of the array that execute e has not reached yet.
Remaining(handlers, e) == Len(handlers) - e.next + 1

\* execute runs on to its next await or to its return, in one turn: the loop
\* invokes the next handler; a call that throws is caught at once and the
\* loop goes on with the result as it was; a call that returns a promise is
\* awaited; once the array is exhausted the result is returned.  The first
\* `thrown` handlers the loop reaches throw on the call.
RECURSIVE Advance(_, _, _)
Advance(handlers, e, thrown) ==
    IF e.next > Len(handlers) THEN [e EXCEPT !.state = "returned"]
    ELSE LET Invocation(outcome) == [registration |-> handlers[e.next],
                                     given |-> HandlerInput(e.result, e.input),
                                     outcome |-> outcome]
         IN  IF thrown > 0
             THEN Advance(handlers,
                          [e EXCEPT
                             !.result = Settled(@, e.input, handlers[e.next].handler,
                                                "throws"),
                             !.next   = @ + 1,
                             !.called = Append(@, Invocation("throws"))],
                          thrown - 1)
             ELSE [e EXCEPT !.state  = "pending",
                            !.called = Append(@, Invocation("pending"))]

\* private hooks = new Map<string, HookRegistration[]>()
HookInit ==
    /\ hooks = <<>>
    /\ regLog = <<>>
    /\ execs = <<>>

\* register(registration): throws for an untrusted handler on a privileged
\* hook and returns otherwise; no statement of it writes to this.hooks.  It
\* may be called at any time, an execute awaiting a handler or not.
Register(hookName, plugin) ==
    /\ Len(regLog) < MaxHandlers
    /\ LET registration == HookRegistration(hookName, plugin)
       IN  regLog' = Append(regLog, [registration |-> registration,
                                     threw |-> RegistrationRejected(registration)])
    /\ hooks' = hooks
    /\ UNCHANGED <<execs, codecVars, routerVars, lockVars, authVars, busVars,
                   sharedVars, toolVars, ctxVars>>

\* execute(hookName, context, data) is called: handlers are read from the
\* Map, result = data, and the call runs to its first await (the first
\* handler whose call returns a promise) or, with no such handler, to its
\* return.  `regs` is the number of register calls made before this one.
Execute(hookName, thrown) ==
    /\ Len(execs) < MaxExecutes
    /\ LET e == [hookName |-> hookName, input |-> HookInput,
                 result |-> HookInput, next |-> 1, called |-> <<>>,
                 state |-> "running", regs |-> Len(regLog)]
       IN  /\ thrown <= Remaining(Handlers(hooks, hookName), e)
           /\ execs' = Append(execs, Advance(Handlers(hooks, hookName), e, thrown))
    /\ UNCHANGED <<hooks, regLog, codecVars, routerVars, lockVars, authVars,
                   busVars, sharedVars, toolVars, ctxVars>>

\* The promise execute k awaits settles (or withTimeout gives up on it): the
\* result is assigned, or the catch block runs, and the loop goes on, in the
\* same turn, to its next await or to the return.
HandlerSettles(k, outcome, thrown) ==
    /\ k \in DOMAIN execs /\ execs[k].state = "pending"
    /\ LET e        == execs[k]
           handlers == Handlers(hooks, e.hookName)
           settled  == [e EXCEPT
                          !.result = Settled(@, e.input, handlers[e.next].handler, outcome),
                          !.next   = @ + 1,
                          !.called[Len(e.called)].outcome = outcome]
       IN  /\ thrown <= Remaining(handlers, settled)
           /\ execs' = [execs EXCEPT ![k] = Advance(handlers, settled, thrown)]
    /\ UNCHANGED <<hooks, regLog, codecVars, routerVars, lockVars, authVars,
                   busVars, sharedVars, toolVars, ctxVars>>

HookNext ==
    \/ \E hookName \in HookNames, plugin \in Plugins : Register(hookName, plugin)
    \/ \E hookName \in HookNames, thrown \in 0..MaxHandlers : Execute(hookName, thrown)

InitHooks ==
    /\ HookInit /\ CodecIdle /\ RouterIdle /\ LockIdle /\ GatewayIdle
    /\ SharedIdle /\ ToolIdle /\ ContextIdle

SpecHooks == InitHooks /\ [][HookNext]_vars

\* The loop of execute over a handler array: the Map is drawn holding a chain
\* of handlers of distinct plugins on onIntake, and executes run on it, each
\* awaiting its handlers in turn while the others proceed.
Chains ==
    {chain \in UNION {[1..n -> Plugins] : n \in 0..MaxHandlers} :
        \A i, j \in DOMAIN chain : i # j => chain[i] # chain[j]}

PipelineInit ==
    /\ \E chain \in Chains :
          hooks = ("onIntake" :> [i \in DOMAIN chain |-> HookRegistration("onIntake", chain[i])])
    /\ regLog = <<>>
    /\ execs = <<>>

PipelineNext ==
    \/ \E hookName \in HookNames, thrown \in 0..MaxHandlers : Execute(hookName, thrown)
    \/ \E k \in 1..MaxExecutes, outcome \in AwaitedOutcomes, thrown \in 0..MaxHandlers :
          HandlerSettles(k, outcome, thrown)

InitPipeline ==
    /\ PipelineInit /\ CodecIdle /\ RouterIdle /\ LockIdle /\ GatewayIdle
    /\ SharedIdle /\ ToolIdle /\ ContextIdle

SpecPipeline == InitPipeline /\ [][PipelineNext]_vars

-----------------------------------------------------------------------------
(* Tool dispatch in the agentic loop: each tool call carries the call id    *)
(* the model gave it; the engine keeps the completed call ids of each run.  *)

\* The runs whose loops dispatch tool calls.
MaxToolRuns == 2

\* The number of dispatch events (invocations, completions, replays).
MaxToolEvents == 4

ToolRuns == 1..MaxToolRuns

\* The call ids the model gives its tool calls.
CallIds == {"call-1", "call-2"}

\* A lookup that finds no call id completed.
CallCompletedNever(completed, callId) == FALSE

\* The call id is among the run's completed ones.
CallCompleted(completed, callId) == callId \in completed

\* The run's completed call ids once callId has completed.
MarkCompleted(completed, callId) == completed \cup {callId}

ToolEvent(kind, r, callId) == [kind |-> kind, run |-> r, callId |-> callId]

ToolInit ==
    /\ completedCalls = [r \in ToolRuns |-> {}]
    /\ toolCall = [r \in ToolRuns |-> None]
    /\ toolLog = <<>>

\* The loop of run r reaches the tool call callId (for the first time, or
\* again when the loop is re-invoked): it short-circuits on a completed
\* call id and invokes the tool handler otherwise.
DispatchTool(r, callId) ==
    /\ toolCall[r] = None
    /\ Len(toolLog) < MaxToolEvents
    /\ IF CallCompleted(completedCalls[r], callId)
       THEN /\ toolLog' = Append(toolLog, ToolEvent("replayed", r, callId))
            /\ toolCall' = toolCall
       ELSE /\ toolLog' = Append(toolLog, ToolEvent("executed", r, callId))
            /\ toolCall' = [toolCall EXCEPT ![r] = Some(callId)]
    /\ UNCHANGED <<completedCalls, codecVars, routerVars, lockVars, authVars,
                   busVars, sharedVars, hookVars, ctxVars>>

\* handler.execute(args, context) resolves: the call id is completed.
ToolHandlerReturns(r) ==
    /\ toolCall[r].some
    /\ Len(toolLog) < MaxToolEvents
    /\ completedCalls' = [completedCalls EXCEPT ![r] = MarkCompleted(@, toolCall[r].v)]
    /\ toolLog' = Append(toolLog, ToolEvent("completed", r, toolCall[r].v))
    /\ toolCall' = [toolCall EXCEPT ![r] = None]
    /\ UNCHANGED <<codecVars, routerVars, lockVars, authVars, busVars,
                   sharedVars, hookVars, ctxVars>>

\* The loop of run r crashes with its tool call in flight; the call never
\* completes, and the loop is re-invoked from the completed call ids.
LoopCrashes(r) ==
    /\ toolCall[r].some
    /\ toolCall' = [toolCall EXCEPT ![r] = None]
    /\ UNCHANGED <<completedCalls, toolLog, codecVars, routerVars, lockVars,
                   authVars, busVars, sharedVars, hookVars, ctxVars>>

ToolNext ==
    \/ \E r \in ToolRuns, callId \in CallIds : DispatchTool(r, callId)
    \/ \E r \in ToolRuns : ToolHandlerReturns(r)
    \/ \E r \in ToolRuns : LoopCrashes(r)

InitTools ==
    /\ ToolInit /\ CodecIdle /\ RouterIdle /\ LockIdle /\ GatewayIdle
    /\ SharedIdle /\ HookIdle /\ ContextIdle

SpecTools == InitTools /\ [][ToolNext]_vars

-----------------------------------------------------------------------------
(* Properties of the envelope schemas.                                      *)

Returned(fn) == arg.some /\ arg.v.fn = fn /\ ret.some

EnvelopeSchemas ==
    {"RequestEnvelopeSchema", "ResponseEnvelopeSchema", "EventEnvelopeSchema"}

\* C26: a response envelope the schema accepts has exactly one of result
\* and error.
C26_ExactlyOneOfResultError ==
    (Returned("ResponseEnvelopeSchema") /\ ret.v.success) =>
        (ret.v.data.result.some # ret.v.data.error.some)

\* The version field of the raw value is missing or is not the supported
\* literal.
VersionMismatch(r) == ~r.object \/ ~r.version.some \/ r.version.v # "1.0"

\* C28: a request, response or event envelope whose version is missing or
\* is not "1.0" is rejected, with an issue at the version field when the
\* value is an object; an accepted envelope carries its version unchanged.
C28_VersionMismatchRejected ==
    \A fn \in EnvelopeSchemas :
        Returned(fn) =>
            /\ VersionMismatch(arg.v.raw) =>
                  /\ ~ret.v.success
                  /\ arg.v.raw.object =>
                        \E i \in DOMAIN ret.v.issues :
                            ret.v.issues[i].path = <<"version">>
            /\ ret.v.success =>
                  /\ ret.v.data.version = "1.0"
                  /\ arg.v.raw.version = Some("1.0")

\* A schema has rejected an envelope that is valid but for its version.
C28_Witness ==
    /\ arg.some /\ ret.some /\ arg.v.fn \in EnvelopeSchemas
    /\ arg.v.raw.object /\ arg.v.raw.version = Some("2.0")
    /\ ~ret.v.success
    /\ Len(ret.v.issues) = 1


\* C29: parseRequestEnvelope returns an envelope, and then the input was a
\* valid one, or throws a ProtocolValidationError (or its subclass) with at
\* least one (path, message) issue; safeParseRequestEnvelope never throws
\* and fails exactly when parseRequestEnvelope throws, handing on the same
\* error; a method outside the enumerated set is rejected with an issue at
\* the method field.
C29_TypedValidationError ==
    parsed.some =>
        LET p == parseRequestEnvelope(raw.v)
            q == parsed.v
        IN  /\ ~p.threw => StructurallyValid(raw.v) /\ p.data.method = raw.v.method.v
            /\ p.threw =>
                  /\ InstanceOf(p.error, "ProtocolValidationError")
                  /\ p.error.name \in {"ProtocolValidationError", "IdempotencyKeyError"}
                  /\ Len(p.error.issues) >= 1
                  /\ \A i \in DOMAIN p.error.issues :
                        DOMAIN p.error.issues[i] = {"path", "message"}
            /\ ~q.threw
            /\ q.success <=> ~p.threw
            /\ ~q.success => q.error = p.error
            /\ (raw.v.object /\ raw.v.method.some
                    /\ raw.v.method.v \notin
                         {"session.resolve", "message.send", "agent.run",
                          "agent.cancel", "status.get", "node.exec.request",
                          "node.exec.approve", "device.revoke", "plugin.disable"}) =>
                  /\ ~q.success
                  /\ \E i \in DOMAIN q.error.issues :
                        q.error.issues[i].path = <<"method">>

\* A request that is valid but for an unknown method was rejected.
C29_Witness ==
    /\ parsed.some
    /\ StructurallyValid([raw.v EXCEPT !.method = Some("status.get")])
    /\ raw.v.method = Some("foo.bar")
    /\ ~parsed.v.threw /\ ~parsed.v.success
    /\ Len(parsed.v.error.issues) = 1

-----------------------------------------------------------------------------
(* Properties of isPermitted and of binding resolution.                     *)

ListRange(list) == {list[i] : i \in DOMAIN list}

\* C27: isPermitted is true exactly when every requested capability is
\* absent from deny and, if allow is set, present in allow; a request for a
\* capability on both lists is denied; a policy with neither list permits
\* every request.
C27_PermittedIff ==
    Returned("isPermitted") =>
        LET policy == arg.v.policy
            wanted == ListRange(arg.v.capabilities)
            denied == IF policy.deny.some THEN ListRange(policy.deny.v) ELSE {}
        IN  /\ ret.v <=>
                  \A cap \in wanted :
                      /\ cap \notin denied
                      /\ policy.allow.some => cap \in ListRange(policy.allow.v)
            /\ (policy.allow.some /\
                    wanted \cap denied \cap ListRange(policy.allow.v) # {}) => ~ret.v
            /\ (~policy.allow.some /\ ~policy.deny.some) => ret.v

\* A capability on both lists was requested and denied.
C27_Witness ==
    /\ Returned("isPermitted")
    /\ arg.v.policy = [allow |-> Some(<<"shell.exec">>), deny |-> Some(<<"shell.exec">>)]
    /\ arg.v.capabilities = <<"shell.exec">>
    /\ ret.v = FALSE

\* The bindings of the table that apply to the inbound message, stated on
\* the fields themselves.
Applicable(bs, in) ==
    {i \in DOMAIN bs :
        /\ bs[i].provider = in.provider
        /\ bs[i].channelId \in {None, in.channelId}
        /\ bs[i].senderId \in {None, in.senderId}}

\* channel+sender 3, channel only 2, sender only 1
Level(b) ==
    (IF b.channelId.some THEN 2 ELSE 0) + (IF b.senderId.some THEN 1 ELSE 0)

\* C30: resolve returns the default agent when no binding applies, and
\* otherwise the agent of an applicable binding that no applicable binding
\* exceeds in specificity whatever the priorities; among the applicable
\* bindings of that specificity none has a higher priority, and among those
\* of that priority none was created later.
C30_MostSpecificBindingWins ==
    Returned("resolve") =>
        LET bs == arg.v.bindings
            ap == Applicable(bs, arg.v.params)
        IN  IF ap = {} THEN ret.v = <<"default">>
            ELSE \E i \in ap :
                    /\ ret.v = bs[i].agentId
                    /\ \A j \in ap :
                          /\ Level(bs[j]) <= Level(bs[i])
                          /\ Level(bs[j]) = Level(bs[i]) =>
                                /\ bs[j].priority <= bs[i].priority
                                /\ bs[j].priority = bs[i].priority =>
                                      bs[j].createdAt <= bs[i].createdAt

\* A channel+sender binding of priority 1 won over a channel binding of
\* priority 5.
C30_Witness ==
    /\ Returned("resolve")
    /\ Len(arg.v.bindings) = 2
    /\ Level(arg.v.bindings[1]) = 3 /\ arg.v.bindings[1].priority = 1
    /\ Level(arg.v.bindings[2]) = 2 /\ arg.v.bindings[2].priority = 5
    /\ arg.v.params = [provider |-> "telegram", channelId |-> Some("chat42"),
                       senderId |-> Some("alice")]
    /\ ret.v = arg.v.bindings[1].agentId


-----------------------------------------------------------------------------------------------------------------------------------------------------
(* Properties of the hook manager.                                          *)

\* The registrations register returned normally for on hook point h among
\* the first n register calls, in the order of the calls.
RegisteredFor(h, n) ==
    LET Keep(r) == r.registration.hookName = h /\ ~r.threw
        kept    == SelectSeq(SubSeq(regLog, 1, n), Keep)
    IN  [i \in DOMAIN kept |-> kept[i].registration]

HandlerNames(chain) == [i \in DOMAIN chain |-> chain[i].handler]

\* The names of the first n handlers execute e invoked whose invocation
\* resolved.
RECURSIVE Survivors(_, _)
Survivors(e, n) ==
    IF n = 0 THEN <<>>
    ELSE IF e.called[n].outcome = "returns"
         THEN Append(Survivors(e, n - 1), e.called[n].registration.handler)
         ELSE Survivors(e, n - 1)

AllResolved(e) == \A i \in DOMAIN e.called : e.called[i].outcome = "returns"

\* The handlers of `chain` were invoked in order, each given its
\* predecessor's output, and the chain's output was returned.
RanChain(e, chain) ==
    /\ Len(e.called) = Len(chain)
    /\ \A i \in DOMAIN e.called :
          /\ e.called[i].registration = chain[i]
          /\ e.called[i].given = e.input \o SubSeq(HandlerNames(chain), 1, i - 1)
    /\ e.result = e.input \o HandlerNames(chain)

\* Every handler of `chain` had its turn, a failed one's successor was given
\* what the failed one was given, and the output of those that resolved was
\* returned.
RanChainSkippingFailed(e, chain) ==
    /\ Len(e.called) = Len(chain)
    /\ \A i \in DOMAIN e.called :
          /\ e.called[i].registration = chain[i]
          /\ e.called[i].given = e.input \o Survivors(e, i - 1)
          /\ (i > 1 /\ e.called[i - 1].outcome # "returns") =>
                e.called[i].given = e.called[i - 1].given
    /\ e.result = e.input \o Survivors(e, Len(e.called))

\* C22: an execute that returns with every handler it invoked resolved has
\* invoked the handlers registered on its hook point before the call, in
\* registration order, each given its predecessor's output, and returns
\* H3(H2(H1(X))) for the handlers H1, H2, H3.
C22_PipelineInRegistrationOrder ==
    \A k \in DOMAIN execs :
        (execs[k].state = "returned" /\ AllResolved(execs[k])) =>
            RanChain(execs[k], RegisteredFor(execs[k].hookName, execs[k].regs))

\* C23: an execute returns whatever its handlers do, having given every
\* handler registered on its hook point before the call its turn; a handler
\* that throws, rejects or times out is skipped, its successor is given
\* exactly what it was given, and the output of the handlers that resolved
\* is returned (H3(H1(X)) when H2 fails).
C23_FailedHandlerSkipped ==
    \A k \in DOMAIN execs :
        /\ execs[k].state \in {"pending", "returned"}
        /\ execs[k].state = "returned" =>
              RanChainSkippingFailed(execs[k],
                                     RegisteredFor(execs[k].hookName, execs[k].regs))

\* Given a Map that holds the chain, execute computes H3(H2(H1(X))) when all
\* handlers resolve.
ExecuteRunsChain ==
    \A k \in DOMAIN execs :
        (execs[k].state = "returned" /\ AllResolved(execs[k])) =>
            RanChain(execs[k], Handlers(hooks, execs[k].hookName))

\* Given a Map that holds the chain, execute skips the handlers that fail.
ExecuteSkipsFailed ==
    \A k \in DOMAIN execs :
        execs[k].state = "returned" =>
            RanChainSkippingFailed(execs[k], Handlers(hooks, execs[k].hookName))

\* execute awaits nothing but the promise of the handler it invoked last: a
\* call that threw was caught in the turn that made it.
AwaitsOnlyPromises ==
    \A k \in DOMAIN execs :
        \A i \in DOMAIN execs[k].called :
            execs[k].called[i].outcome = "pending"
                <=> (execs[k].state = "pending" /\ i = Len(execs[k].called))

\* The first handler of a chain of two threw on the call and the second is
\* awaited, after one step.
ThrowCaughtInTurn ==
    /\ Len(execs) = 1 /\ execs[1].state = "pending" /\ execs[1].next = 2
    /\ execs[1].called[1].outcome = "throws"
    /\ execs[1].called[2].given = HookInput

\* Two executes were awaiting their first handler at once; the second one
\* has run through a chain of three whose second handler timed out.
ExecutesInterleave ==
    /\ Len(execs) = 2
    /\ execs[1].state = "pending" /\ execs[1].next = 1
    /\ execs[2].state = "returned" /\ Len(execs[2].called) = 3
    /\ execs[2].called[2].outcome = "timeout"
    /\ execs[2].result = Transform(execs[2].called[3].registration.handler,
                             Transform(execs[2].called[1].registration.handler, HookInput))

Trusted(registration) ==
    registration.isBuiltIn \/ registration.hasPrivilegedPermission

\* C24: register throws for a handler on onContextAssembled or
\* onModelResponse that is neither built-in nor granted the privileged
\* permission, and returns normally for every other registration; a
\* registration refused leaves the Map as it was; so no such handler is held
\* for, or invoked at, those two hook points.
C24_PrivilegedHooksTrustedOnly ==
    /\ [][regLog' # regLog =>
             LET call         == regLog'[Len(regLog')]
                 registration == call.registration
             IN  /\ regLog' = Append(regLog, call)
                 /\ IF registration.hookName \in {"onContextAssembled", "onModelResponse"}
                        /\ ~Trusted(registration)
                    THEN call.threw /\ hooks' = hooks
                    ELSE ~call.threw]_vars
    /\ [](\A point \in {"onContextAssembled", "onModelResponse"} :
             \A i \in DOMAIN Handlers(hooks, point) : Trusted(Handlers(hooks, point)[i]))
    /\ [](\A k \in DOMAIN execs :
             execs[k].hookName \in {"onContextAssembled", "onModelResponse"} =>
                 \A i \in DOMAIN execs[k].called : Trusted(execs[k].called[i].registration))

\* register returned for the plugin with the permission on onModelResponse
\* and then threw for the plugin without it, and an execute of
\* onModelResponse followed.
C24_Witness ==
    \E i, j \in DOMAIN regLog :
        /\ i < j
        /\ regLog[i].registration.hookName = "onModelResponse"
        /\ ~regLog[i].registration.isBuiltIn
        /\ regLog[i].registration.hasPrivilegedPermission /\ ~regLog[i].threw
        /\ regLog[j].registration.hookName = "onModelResponse"
        /\ ~Trusted(regLog[j].registration) /\ regLog[j].threw
        /\ \E k \in DOMAIN execs :
              execs[k].hookName = "onModelResponse" /\ execs[k].regs >= j


-----
(* Properties of tool dispatch.                                             *)

\* C21: once a call id has completed in a run, the tool handler is never
\* invoked for that call id in that run again: a later dispatch of it is a
\* replay, and a replay happens only for a call id that completed before.
C21_CompletedCallNeverReexecuted ==
    \A i, j \in DOMAIN toolLog :
        /\ (i < j /\ toolLog[i].kind = "completed"
                  /\ toolLog[j].run = toolLog[i].run
                  /\ toolLog[j].callId = toolLog[i].callId) =>
              toolLog[j].kind = "replayed"
        /\ toolLog[j].kind = "replayed" =>
              \E k \in 1..(j - 1) :
                  toolLog[k] = ToolEvent("completed", toolLog[j].run, toolLog[j].callId)

\* A call that was in flight when the loop crashed was executed again on
\* the retry, completed, and was then replayed without a third execution.
C21_Witness ==
    /\ Len(toolLog) = 4
    /\ toolLog[1] = ToolEvent("executed", 1, "call-1")
    /\ toolLog[2] = ToolEvent("executed", 1, "call-1")
    /\ toolLog[3] = ToolEvent("completed", 1, "call-1")
    /\ toolLog[4] = ToolEvent("replayed", 1, "call-1")


-----------------------------------------------------------------------------
(* Properties of the event bus under backpressure.                          *)

\* The events connection c holds: queued for it or written to its socket.
Held(c) == {outbox[c][i] : i \in DOMAIN outbox[c]}
               \cup {delivered[c][i] : i \in DOMAIN delivered[c]}

\* C32: the outbound queue of a connection never holds more than MaxQueue
\* events, however slowly its consumer reads; an event that arrives for a
\* connection whose queue is full is dropped (neither queued nor written),
\* and an event once published and not held for a connection is never
\* queued for it or written to it later (no retry).
C32_QueueBoundedDropsNotRetried ==
    /\ [](\A c \in ConnIds : Len(outbox[c]) <= MaxQueue)
    /\ [][\A c \in ConnIds :
            /\ (published' # published /\ Len(outbox[c]) = MaxQueue) =>
                  (outbox'[c] = outbox[c] /\ delivered'[c] = delivered[c])
            /\ \A e \in 1..published : e \notin Held(c) => e \notin Held(c)']_vars

\* Every connection was written the first event, has a full queue behind
\* its unread buffer and was sent one event more, which was dropped.
C32_Witness ==
    /\ published = MaxQueue + 2
    /\ \A c \in ConnIds :
          /\ c \in DOMAIN registry
          /\ delivered[c] = <<1>> /\ buffered[c] = Threshold + 1
          /\ Len(outbox[c]) = MaxQueue /\ Head(outbox[c]) = 2

StrictlyIncreasing(q) == \A i, j \in DOMAIN q : i < j => q[i] < q[j]

\* C33: events are numbered in the order they are sent; the events written
\* to a connection's socket are in send order, and the events queued for it
\* were all sent after those written and are queued in send order.
C33_DeliveryPreservesSendOrder ==
    \A c \in ConnIds : StrictlyIncreasing(delivered[c] \o outbox[c])

\* An event was queued under backpressure, the backpressure has cleared, and
\* an event sent later is queued behind it.
C33_Witness ==
    \E c \in ConnIds :
        /\ c \in DOMAIN registry
        /\ delivered[c] = <<1>> /\ buffered[c] = 0
        /\ outbox[c] = <<2, 3>>


-----------------------------------------------------------------------------
(* Runtime context: the session transcript (TranscriptWriter) and rolling   *)
(* summary compaction (CompactionManager).  A turn counts one token.        *)

\* The number of turns appended to a session's transcript.
MaxTurns == 3

SessionIds == {"s1", "s2"}

\* ContextAssemblerConfig
recentTurnsToKeep == 1

maxContextTokens == 2

\* compactionThreshold, in percent
compactionThreshold == 75

TurnIdsOf(entries) == {entries[i].turnId : i \in DOMAIN entries}

\* The turns older than the verbatim window of the most recent turns.
OlderTurns(entries, keep) ==
    IF Len(entries) > keep THEN SubSeq(entries, 1, Len(entries) - keep) ELSE <<>>

\* The running token count of the context: the latest summary, if any, and
\* the turns it does not cover.
tokenCount(entries, summaries) ==
    IF summaries = <<>> THEN Len(entries)
    ELSE 1 + Cardinality(TurnIdsOf(entries)
                            \ summaries[Len(summaries)].compactedTurnIds)

\* CompactionManager.shouldCompact(tokenCount, maxTokens, threshold)
shouldCompact(count, maxTokens, threshold) == count * 100 > threshold * maxTokens

\* CompactionManager.compact({transcript, recentTurnsToKeep, model}): the
\* model's summary of the older turns, and their ids.
compact(entries, keep) ==
    LET older == OlderTurns(entries, keep)
    IN  [summary |-> <<"summary of", Len(older), "turns">>,
         compactedTurnIds |-> TurnIdsOf(older)]

\* A saveCompaction that replaces the summarized turns in the transcript.
saveCompactionReplacing(files, summary, compactedTurnIds) ==
    [transcript |-> SelectSeq(files.transcript,
                              LAMBDA e : e.turnId \notin compactedTurnIds),
     compacted |-> Append(files.compacted,
                          [summary |-> summary, compactedTurnIds |-> compactedTurnIds])]

\* CompactionManager.saveCompaction(agentId, sessionId, summary,
\* compactedTurnIds): one line more in <sessionId>.compacted.jsonl.
saveCompaction(files, summary, compactedTurnIds) ==
    [files EXCEPT !.compacted =
        Append(@, [summary |-> summary, compactedTurnIds |-> compactedTurnIds])]

ContextInit ==
    /\ transcript = [s \in SessionIds |-> <<>>]
    /\ compacted = [s \in SessionIds |-> <<>>]

\* TranscriptWriter.append(agentId, sessionId, entry)
AppendTurn(s, role) ==
    /\ Len(transcript[s]) < MaxTurns
    /\ transcript' = [transcript EXCEPT
                         ![s] = Append(@, [turnId |-> Len(@) + 1, role |-> role])]
    /\ UNCHANGED <<compacted, codecVars, routerVars, lockVars, authVars, busVars,
                   sharedVars, hookVars, toolVars>>

\* The start of a context assembly for session s: the compaction trigger is
\* evaluated and, when it fires, the older turns are summarized and the
\* summary is saved.
CompactSession(s) ==
    /\ shouldCompact(tokenCount(transcript[s], compacted[s]), maxContextTokens,
                     compactionThreshold)
    /\ LET c == compact(transcript[s], recentTurnsToKeep)
           files == saveCompaction([transcript |-> transcript[s],
                                    compacted |-> compacted[s]],
                                   c.summary, c.compactedTurnIds)
       IN  /\ c.compactedTurnIds # {}
           /\ \A i \in DOMAIN compacted[s] :
                 compacted[s][i].compactedTurnIds # c.compactedTurnIds
           /\ transcript' = [transcript EXCEPT ![s] = files.transcript]
           /\ compacted' = [compacted EXCEPT ![s] = files.compacted]
    /\ UNCHANGED <<codecVars, routerVars, lockVars, authVars, busVars,
                   sharedVars, hookVars, toolVars>>

ContextNext ==
    \/ \E s \in SessionIds, role \in {"user", "assistant"} : AppendTurn(s, role)
    \/ \E s \in SessionIds : CompactSession(s)

InitContext ==
    /\ ContextInit /\ CodecIdle /\ RouterIdle /\ LockIdle /\ GatewayIdle
    /\ SharedIdle /\ HookIdle /\ ToolIdle

SpecContext == InitContext /\ [][ContextNext]_vars

IsPrefix(p, q) == Len(p) <= Len(q) /\ SubSeq(q, 1, Len(p)) = p

\* C31: a compaction leaves every session's transcript exactly as it was
\* (what read returns before it equals what read returns after it) and adds
\* its summary as one more entry of that session's compacted store; and no
\* step ever removes or alters an entry of a transcript.
C31_CompactionIsAdditive ==
    [][\A s \in SessionIds :
          /\ IsPrefix(transcript[s], transcript'[s])
          /\ compacted'[s] # compacted[s] =>
                /\ transcript' = transcript
                /\ Len(compacted'[s]) = Len(compacted[s]) + 1
                /\ IsPrefix(compacted[s], compacted'[s])]_vars

\* A session was compacted twice as it grew, and its transcript still holds
\* every turn, the summarized ones included.
C31_Witness ==
    \E s \in SessionIds :
        /\ Len(compacted[s]) = 2
        /\ Len(transcript[s]) = MaxTurns
        /\ compacted[s][2].compactedTurnIds \subseteq TurnIdsOf(transcript[s])
        /\ compacted[s][2].compactedTurnIds # {}


-----------------------------------------------------------------------------
(* Properties of buildIdempotencyKey and of validateCommand.                *)

\* C34: two distinct (deviceId, method, clientKey) triples never have the
\* same namespaced key.
C34_DistinctTriplesDistinctKeys ==
    (Returned("buildIdempotencyKey") /\ arg.v.a # arg.v.b) => ret.v[1] # ret.v[2]

\* The request matches the pattern and satisfies the pattern's working
\* directory restriction, if it has one.
AllowedBy(request, pattern) ==
    /\ matchesPattern(request.command, request.args, pattern)
    /\ pattern.cwd.some =>
          (request.cwd.some /\ startsWith(request.cwd.v, pattern.cwd.v))

\* C38: validateCommand allows a request only if it matches no deny pattern
\* and matches an allow pattern whose working-directory restriction, if
\* any, its cwd satisfies; so a request without cwd is not allowed when
\* every allow pattern it matches restricts cwd, and a request matching no
\* allow pattern is denied.
C38_AllowedOnlyWithinPolicy ==
    Returned("validateCommand") =>
        LET request == arg.v.request
            config == arg.v.config
        IN  ret.v.allowed =>
                /\ \A i \in DOMAIN config.deny :
                      ~matchesPattern(request.command, request.args, config.deny[i])
                /\ \E i \in DOMAIN config.allow : AllowedBy(request, config.allow[i])


-----------------------------------------------------------------------------
(* Properties of the nonce window across devices.                           *)

\* No earlier handshake of the same device recorded the nonce of entry j
\* within the window.
FreshForDevice(j) ==
    \A i \in Handled :
        (i < j /\ Recorded(audit[i]) /\ SameDeviceAndNonce(audit[i], audit[j]))
            => audit[j].at - audit[i].at >= NonceWindow

\* C36: a handshake that is valid but for the nonce check (well-formed,
\* signature verifies, timestamp within the skew, device approved) and whose
\* nonce its own device has not used within the window is accepted, whatever
\* nonces other devices have used.
C36_NonceJudgedPerDevice ==
    \A j \in Handled :
        (/\ ConnectSchemaOk(audit[j].msg)
         /\ SignatureVerifies(audit[j].msg)
         /\ Abs(audit[j].at - audit[j].msg.timestamp) <= NonceWindow
         /\ PairedDevices[audit[j].msg.deviceId].approved
         /\ audit[j].msg.deviceId \notin audit[j].revoked
         /\ FreshForDevice(j))
        => audit[j].code = "connect_ok"


-----------------------------------------------------------------------------
(* Properties of the session lock's queue and of repeated releases.         *)

\* The caller is past its acquire: it holds the lock or has ended.
Granted(r) == run[r].phase \notin {"idle", "acquiring"}

\* C35: callers are numbered in the order they call acquire; while a caller
\* is still waiting for a session key, no caller that called acquire for the
\* same key after it has been granted the lock.
C35_WaitersServedInOrder ==
    \A a, b \in Callers :
        (a < b /\ run[a].key = run[b].key /\ run[a].phase = "acquiring") => ~Granted(b)

\* Two callers queued behind the holder of a key; the holder released, the
\* first of them holds the lock and the second still waits, behind it.
C35_Witness ==
    \E a, b, c \in Callers :
        /\ a < b /\ b < c
        /\ run[a].key = run[b].key /\ run[b].key = run[c].key
        /\ run[a].phase \in TerminalPhases
        /\ Holding(b) /\ run[b].existing = run[a].next
        /\ run[c].phase = "acquiring" /\ run[c].existing = run[b].next

\* C37: whatever number of times release functions are invoked, no two
\* callers hold the lock of one session key at once; an invocation after the
\* first resolves nothing, and the promise a caller's successors wait on is
\* resolved only once that caller itself has released.
C37_RepeatedReleaseHarmless ==
    /\ [](\A a, b \in Callers :
            /\ (a # b /\ run[a].key = run[b].key /\ Holding(a)) => ~Holding(b)
            /\ (run[a].phase # "idle" /\ IsResolved(run[a].next)) => run[a].releases >= 1)
    /\ [][\A r \in Callers :
            (run[r].releases >= 1 /\ run'[r].releases > run[r].releases) =>
                resolved' = resolved]_vars

\* A caller released twice; the next caller for its key holds the lock and
\* a third still waits for it.
C37_Witness ==
    \E a, b, c \in Callers :
        /\ a < b /\ b < c
        /\ run[a].key = run[b].key /\ run[b].key = run[c].key
        /\ run[a].releases = MaxReleases
        /\ Holding(b) /\ run[b].releases = 0
        /\ run[c].phase = "acquiring"

=============================================================================
